---- MODULE Spec2Model ----
(***************************************************************************)
(* A model of the PDF -> slides -> video pipeline:                         *)
(*   src/src/pdf_parser.py       per-page digital/OCR text triage          *)
(*   src/src/summarizer.py       AI calls with credential rotation, slides *)
(*   src/src/image_generator.py  icon query chain and icon download        *)
(*   src/src/video_creator.py    rasterize, narrate, assemble              *)
(*   src/src/slide_creator.py, src/src/pdf_slide_creator.py  rendering     *)
(*   src/run_pipeline.py         command line entry point                  *)
(* Each component has its own specification (SpecExtract, SpecGemini,      *)
(* SpecSummarize, SpecKeyPoints, SpecIconQuery, SpecQuery, SpecTry,        *)
(* SpecIcon, SpecWrap, SpecRender, SpecVideo, SpecPipeline); the variables *)
(* of the other components stay at their idle values.                      *)
(***************************************************************************)
EXTENDS Integers, Sequences, FiniteSets, TLC

VARIABLES
    \* ---- PDFParser (pdf_parser.py)
    doc,                \* self.doc: sequence of pages [digital, ocr]
    extraction_stats,   \* self.extraction_stats
    last_call,          \* the last public call of the parser and what it returned
    parser_calls,       \* number of public calls made on the parser
    \* ---- ContentSummarizer / IconSearchQueryGenerator (_call_gemini)
    current_key_index,  \* self.current_key_index
    client_key,         \* the credential self.client was built with
    gem_pc,             \* "idle" | "request" : position inside _call_gemini
    gem_attempt,        \* loop variable `attempt` of _call_gemini
    gem_tried,          \* the requests sent within the current call, in order
    gem_limited,        \* credentials that answered with a rate-limit error so far
    gem_result,         \* outcome of the last finished call
    gem_calls,          \* number of _call_gemini calls started
    \* ---- extract_slides_from_pdf_text (summarizer.py)
    pdf_text,           \* the text argument: its blank-line separated paragraphs
    num_points,         \* the argument num_slides / num_points
    max_slides,         \* the argument max_slides of extract_key_points
    sum_pc,             \* position inside extract_slides_from_pdf_text
    sum_calls,          \* how each try block around an AI call ended: "ok" or the exception
    key_points_response, \* the response text extract_key_points received
    title_slide,        \* what generate_title_slide returned
    content_slides,     \* what extract_key_points returned
    sum_path,           \* the path each of the two took: "ai" or "fallback"
    slides_data,        \* the dictionary extract_slides_from_pdf_text returned
    \* ---- IconSearchQueryGenerator of generate_icons_for_slides (image_generator.py)
    qgen_pc,            \* "none" until query_gen is constructed, then its progress
    qgen_key_index,     \* query_gen.current_key_index
    qgen_client_key,    \* the credential query_gen.client was built with
    title_query,        \* the query generate_icon_query returned for the title slide
    \* ---- create_video_complete (video_creator.py)
    pdf_pages,          \* pages of the deck PDF at pdf_path, 0 when the file is missing
    json_slides,        \* content slides in the slide JSON, -1 when the file is missing
    speech_dur,         \* duration of the narration of each content slide
    images_dir,         \* files of images_dir: name -> deck page shown
    audio_dir,          \* files of audio_dir: name -> duration of the recording
    vid_pc,             \* position inside create_video_complete
    slide_images,       \* local slide_images
    audio_clips,        \* local audio_clips
    vid_reused,         \* which sub-steps reused existing files in this run
    vid_error,          \* the sub-step that raised, if any
    video_file,         \* the video file at output_path and its clips
    vid_built,          \* whether creator.create_video was called in this run
    vid_runs,           \* number of create_video_complete calls started
    \* ---- NounProjectIconFetcher.search_and_download (image_generator.py)
    icon_pc,            \* position inside search_and_download
    icon_call,          \* the arguments of the call
    failed_queries,     \* local failed_queries
    attempts,           \* the _try_search_download calls of this call, in order
    alternatives,       \* the phrases generate_alternative_query returned, in order
    retry_num,          \* loop variable retry_num
    icon_ret,           \* the value search_and_download returned, "True" or "False"
    icon_file,          \* the file at save_path: the phrase it was fetched for
    icon_calls,         \* number of search_and_download calls started
    \* ---- main / run_pipeline (run_pipeline.py) and the artifacts of its stages
    cli_input,          \* what --input names: kind and number of PDFs in a directory
    pipe_pc,            \* position inside main / run_pipeline
    steps_done,         \* the steps of run_pipeline that completed, in order
    step_raised,        \* the step whose exception run_pipeline caught, 0 if none
    exit_code,          \* the process exit code, -1 while running
    icons_dir,          \* names of the icon files in intermediate/images
    icon_paths,         \* keys of the dictionary generate_icons_for_slides returns
    pptx_deck,          \* pages of slides.pptx: slide shown and icon looked up
    pdf_deck,           \* pages of slides.pdf: slide shown and icon looked up
    \* ---- the greedy word-wrap of PDFSlideCreator (pdf_slide_creator.py)
    wrap_site,          \* which copy of the loop runs
    wrap_words,         \* text.split(): the width of each word
    wrap_limit,         \* the width limit the loop compares against
    wrap_pc,            \* "idle" | "called" | "returned"
    wrap_lines,         \* lines: each line the sequence of its words
    \* ---- SlideCreator / PDFSlideCreator .create_presentation with icon files
    deck_slides,        \* number of content slides in slides.json
    icon_files,         \* the files of icons_dir: name -> whether it decodes as an image
    pptx_out,           \* outcome of SlideCreator.create_presentation
    pdf_out,            \* outcome of PDFSlideCreator.create_presentation
    \* ---- NounProjectIconFetcher._try_search_download (image_generator.py)
    try_pc,             \* "idle" | "called" | "returned"
    try_search,         \* what the search service answers to the request
    try_download,       \* what the download of the icon URL answers
    try_file,           \* the file at save_path
    try_result,         \* what the call returned and the requests it made
    \* ---- IconSearchQueryGenerator.generate_icon_query (image_generator.py)
    giq_pc,             \* "idle" | "called" | "returned"
    giq_title,          \* the argument slide_title: its words
    giq_answer,         \* what _call_gemini gives the call: the words of a text, or an error
    giq_query           \* the query returned: its words

extractVars == <<doc, extraction_stats, last_call, parser_calls>>
geminiVars  == <<current_key_index, client_key, gem_pc, gem_attempt, gem_tried,
                 gem_limited, gem_result, gem_calls>>

summVars    == <<pdf_text, num_points, max_slides, sum_pc, sum_calls,
                 key_points_response, title_slide,
                 content_slides, sum_path, slides_data>>

qgenVars    == <<qgen_pc, qgen_key_index, qgen_client_key, title_query>>

videoVars   == <<pdf_pages, json_slides, speech_dur, images_dir, audio_dir, vid_pc,
                 slide_images, audio_clips, vid_reused, vid_error, video_file,
                 vid_built, vid_runs>>

iconVars    == <<icon_pc, icon_call, failed_queries, attempts, alternatives, retry_num,
                 icon_ret, icon_file, icon_calls>>

pipeVars    == <<cli_input, pipe_pc, steps_done, step_raised, exit_code, icons_dir,
                 icon_paths, pptx_deck, pdf_deck>>

wrapVars    == <<wrap_site, wrap_words, wrap_limit, wrap_pc, wrap_lines>>

renderVars  == <<deck_slides, icon_files, pptx_out, pdf_out>>

tryVars     == <<try_pc, try_search, try_download, try_file, try_result>>

queryVars   == <<giq_pc, giq_title, giq_answer, giq_query>>

vars == <<extractVars, geminiVars, summVars, qgenVars, videoVars, iconVars, pipeVars,
          wrapVars, renderVars, tryVars,
                   queryVars>>

nonExtractVars == <<geminiVars, summVars, qgenVars, videoVars, iconVars, pipeVars,
                   wrapVars, renderVars, tryVars,
                   queryVars>>
nonGeminiVars  == <<extractVars, summVars, qgenVars, videoVars, iconVars, pipeVars,
                   wrapVars, renderVars, tryVars,
                   queryVars>>
nonVideoVars   == <<extractVars, geminiVars, summVars, qgenVars, iconVars, pipeVars,
                   wrapVars, renderVars, tryVars,
                   queryVars>>
nonIconVars    == <<extractVars, geminiVars, summVars, qgenVars, videoVars, pipeVars,
                   wrapVars, renderVars, tryVars,
                   queryVars>>
nonSummVars    == <<extractVars, geminiVars, qgenVars, videoVars, iconVars, pipeVars,
                   wrapVars, renderVars, tryVars,
                   queryVars>>
stageIdleVars  == <<extractVars, geminiVars, summVars, qgenVars, iconVars,
                   wrapVars, renderVars, tryVars,
                   queryVars>>
pipelineVars   == <<extractVars, geminiVars, summVars, qgenVars, videoVars, iconVars,
                   pipeVars, tryVars, queryVars>>
nonTryVars     == <<extractVars, geminiVars, summVars, qgenVars, videoVars, iconVars,
                   pipeVars, wrapVars, renderVars, queryVars>>
nonQueryVars   == <<extractVars, geminiVars, summVars, qgenVars, videoVars, iconVars,
                   pipeVars, wrapVars, renderVars, tryVars>>

\* ------------------------------------------------------------------------
\* Bounds of the model
\* ------------------------------------------------------------------------
MaxPages == 2
MaxParserCalls == 2
PadLen == 2
MaxGeminiCalls == 3
MaxSlides == 2
MaxVideoRuns == 2
MaxIconCalls == 2
MaxDirPdfs == 1
MaxParagraphs == 4
MaxNumPoints == 2
MaxRecords == 2
MaxWords == 3
MaxWordWidth == 3
MaxLimit == 4
MaxCandidates == 1
MaxDeckSlides == 5

\* ------------------------------------------------------------------------
\* Generic helpers
\* ------------------------------------------------------------------------
NoValue == "none"

Range(s) == {s[i] : i \in 1..Len(s)}

Min(a, b) == IF a < b THEN a ELSE b

\* ========================================================================
\* pdf_parser.py
\* ========================================================================
MIN_DIGITAL_TEXT_THRESHOLD == 100

\* A text is known by where it comes from, by the number of characters between
\* its first and last non-blank character (core) and by the number of leading
\* and trailing blank characters (pad).
Text(src, core, pad) == [src |-> src, core |-> core, pad |-> pad]

\* len(text)
TextLen(t) == t.core + t.pad

\* str.strip(): the surrounding blanks are removed.
Strip(t) == [t EXCEPT !.pad = 0]

CoreLens == {0, MIN_DIGITAL_TEXT_THRESHOLD, MIN_DIGITAL_TEXT_THRESHOLD + 1}

\* page.get_text(): with or without surrounding blank lines.
DigitalTexts == {Text("digital", c, p) : c \in CoreLens, p \in {0, PadLen}}

\* pytesseract.image_to_string(): the recognised text followed by blank lines.
OcrTexts == {Text("ocr", c, PadLen) : c \in CoreLens}

Pages == [digital : DigitalTexts, ocr : OcrTexts]

ZeroStats == [digital_pages |-> 0, ocr_pages |-> 0, hybrid_pages |-> 0]

\* _ocr_page(page)
OcrPage(page) == page.ocr

\* The comparison of extract_text_from_page that decides whether the digital
\* text is trusted.
DigitalSufficient_Mutant(digital_text) ==
    TextLen(digital_text) >= MIN_DIGITAL_TEXT_THRESHOLD

DigitalSufficient(digital_text) ==
    TextLen(digital_text) > MIN_DIGITAL_TEXT_THRESHOLD

\* extract_text_from_page: the text returned, the counter incremented and
\* whether OCR was run.
ExtractPage(page) ==
    LET digital_text == Strip(page.digital) IN
    IF DigitalSufficient(digital_text)
    THEN [text |-> digital_text, counter |-> "digital_pages", ocr_run |-> FALSE]
    ELSE LET ocr_text == Strip(OcrPage(page)) IN
         IF TextLen(ocr_text) > TextLen(digital_text)
         THEN [text |-> ocr_text, counter |-> "ocr_pages", ocr_run |-> TRUE]
         ELSE [text |-> digital_text, counter |-> "hybrid_pages", ocr_run |-> TRUE]

Bump(stats, counter) == [stats EXCEPT ![counter] = @ + 1]

\* The statistics after extract_text_from_page ran on pages 1..n in order.
RECURSIVE StatsAfter(_, _, _)
StatsAfter(stats, pages, n) ==
    IF n = 0 THEN stats
    ELSE Bump(StatsAfter(stats, pages, n - 1), ExtractPage(pages[n]).counter)

PageResults(pages) == [i \in 1..Len(pages) |-> ExtractPage(pages[i])]

InitExtract ==
    /\ doc \in UNION {[1..n -> Pages] : n \in 1..MaxPages}
    /\ extraction_stats = ZeroStats
    /\ last_call = [op |-> "init"]
    /\ parser_calls = 0

IdleExtract ==
    /\ doc = <<>>
    /\ extraction_stats = ZeroStats
    /\ last_call = [op |-> "init"]
    /\ parser_calls = 0

\* PDFParser.extract_text_from_page(page_num)
ExtractTextFromPage(page_num) ==
    /\ UNCHANGED nonExtractVars
    /\ parser_calls < MaxParserCalls
    /\ LET r == ExtractPage(doc[page_num + 1]) IN
       /\ extraction_stats' = Bump(extraction_stats, r.counter)
       /\ last_call' = [op |-> "extract_text_from_page", page_num |-> page_num,
                        before |-> extraction_stats, results |-> <<r>>]
    /\ parser_calls' = parser_calls + 1
    /\ UNCHANGED doc

\* PDFParser.extract_all_text()
ExtractAllText ==
    /\ UNCHANGED nonExtractVars
    /\ parser_calls < MaxParserCalls
    /\ extraction_stats' = StatsAfter(extraction_stats, doc, Len(doc))
    /\ last_call' = [op |-> "extract_all_text", before |-> extraction_stats,
                     results |-> PageResults(doc)]
    /\ parser_calls' = parser_calls + 1
    /\ UNCHANGED doc

\* The "Reset stats" assignment that opens extract_structured_content.
ResetStats_Mutant(stats) == stats

ResetStats(stats) == ZeroStats

\* PDFParser.extract_structured_content()
ExtractStructuredContent ==
    /\ UNCHANGED nonExtractVars
    /\ parser_calls < MaxParserCalls
    /\ extraction_stats' = StatsAfter(ResetStats(extraction_stats), doc, Len(doc))
    /\ last_call' = [op |-> "extract_structured_content",
                     before |-> extraction_stats,
                     results |-> PageResults(doc),
                     num_pages |-> Len(doc),
                     extraction_stats |->
                         StatsAfter(ResetStats(extraction_stats), doc, Len(doc))]
    /\ parser_calls' = parser_calls + 1
    /\ UNCHANGED doc

NextExtract ==
    \/ \E page_num \in 0..(Len(doc) - 1) : ExtractTextFromPage(page_num)
    \/ ExtractAllText
    \/ ExtractStructuredContent

\* ========================================================================
\* summarizer.py / image_generator.py : _call_gemini
\* ========================================================================
\* len(API_KEYS): the fixed pool of credentials, used in list order 0, 1, ...
NumKeys == 5

Prompts == {"prompt_a", "prompt_b"}

\* What the AI service can answer to one request.
ServiceOutcomes == {"ok", "rate_limit", "other_error"}

\* any(term in error_msg for term in ['rate', 'quota', 'limit', 'resource_exhausted'])
IsRateLimit(outcome) == outcome = "rate_limit"

InitGemini ==
    /\ current_key_index = 0
    /\ client_key = 0
    /\ gem_pc = "idle"
    /\ gem_attempt = 0
    /\ gem_tried = <<>>
    /\ gem_limited = {}
    /\ gem_result = [kind |-> NoValue]
    /\ gem_calls = 0

IdleGemini == InitGemini

\* _init_client: a new client only when the index is inside the pool.
InitClient(index, client) == IF index < NumKeys THEN index ELSE client

\* _try_next_key: the new index, the new client and the value returned.
TryNextKey(index, client) ==
    [index  |-> index + 1,
     client |-> InitClient(index + 1, client),
     ok     |-> index + 1 < NumKeys]

\* Whether the loop of _call_gemini sends another request after a rate-limit
\* error: `if not self._try_next_key(): break`, and the next value of
\* `for attempt in range(len(self.api_keys))`.
LoopContinues_Mutant(switched, attempt) == TRUE

LoopContinues(switched, attempt) == switched /\ attempt < NumKeys

\* _call_gemini is entered: last_error = None, the loop starts at attempt 0.
CallGemini(prompt) ==
    /\ UNCHANGED nonGeminiVars
    /\ gem_pc = "idle"
    /\ gem_calls < MaxGeminiCalls
    /\ gem_pc' = "request"
    /\ gem_attempt' = 0
    /\ gem_tried' = <<>>
    /\ gem_result' = [kind |-> "running", prompt |-> prompt]
    /\ gem_calls' = gem_calls + 1
    /\ UNCHANGED <<current_key_index, client_key, gem_limited>>

Finish(kind) ==
    /\ gem_pc' = "idle"
    /\ gem_result' = [kind |-> kind, prompt |-> gem_result.prompt,
                      requests |-> gem_tried']

\* One iteration of `for attempt in range(len(self.api_keys))`: the request is
\* sent with self.client and the service answers with `outcome`.
GeminiRequest(outcome) ==
    /\ UNCHANGED nonGeminiVars
    /\ gem_pc = "request"
    /\ UNCHANGED gem_calls
    /\ gem_tried' = Append(gem_tried, [key |-> client_key,
                                       prompt |-> gem_result.prompt,
                                       index |-> current_key_index])
    /\ IF outcome = "ok"
       THEN /\ Finish("ok")
            /\ UNCHANGED <<current_key_index, client_key, gem_limited, gem_attempt>>
       ELSE IF IsRateLimit(outcome)
       THEN LET nxt == TryNextKey(current_key_index, client_key) IN
            /\ gem_limited' = gem_limited \cup {client_key}
            /\ current_key_index' = nxt.index
            /\ client_key' = nxt.client
            /\ gem_attempt' = gem_attempt + 1
            /\ IF LoopContinues(nxt.ok, gem_attempt + 1)
               THEN UNCHANGED <<gem_pc, gem_result>>
               ELSE Finish("all_keys_failed")
       ELSE /\ Finish("other_error")
            /\ UNCHANGED <<current_key_index, client_key, gem_limited, gem_attempt>>

NextGemini ==
    \/ \E prompt \in Prompts : CallGemini(prompt)
    \/ \E outcome \in ServiceOutcomes : GeminiRequest(outcome)

\* ========================================================================
\* summarizer.py : generate_title_slide, extract_key_points, the fallback
\* ========================================================================
\* The two prompts extract_slides_from_pdf_text sends, in this order.
TitlePrompt == "prompt_a"

KeyPointsPrompt == "prompt_b"

\* The text argument is the sequence text.split('\n\n') yields: entry i tells
\* whether piece i is blank (p.strip() is empty). The empty text is one blank
\* piece; the texts drawn have at most one blank piece.
Texts ==
    UNION {{text \in [1..n -> BOOLEAN] :
              Cardinality({i \in 1..n : text[i]}) <= 1} : n \in 1..MaxParagraphs}

\* [p.strip() for p in text.split('\n\n') if p.strip()], each paragraph named by
\* its position in the text.
RECURSIVE ParagraphsFrom(_, _)
ParagraphsFrom(text, i) ==
    IF i > Len(text) THEN <<>>
    ELSE (IF text[i] THEN <<>> ELSE <<i>>) \o ParagraphsFrom(text, i + 1)

Paragraphs(text) == ParagraphsFrom(text, 1)

Max(a, b) == IF a > b THEN a ELSE b

\* seq[:3]
FirstThree_Mutant(seq) == seq

FirstThree(seq) == SubSeq(seq, 1, Min(3, Len(seq)))

\* The three fields of a slide record.
SlideFields == {"title", "bullets", "speaker_notes"}

\* The two fields of the title slide.
TitleFields == {"title", "subtitle"}

\* f"Key Point {k}"
KeyPointTitle_Mutant(k) == [from |-> "Key Point", n |-> k - 1]

KeyPointTitle(k) == [from |-> "Key Point", n |-> k]

\* The slide _fallback_extraction appends for a chunk; ' '.join(chunk)[:200] is
\* kept as the chunk it joins.
FallbackSlide(k, chunk) ==
    [title |-> KeyPointTitle(k), bullets |-> FirstThree(chunk), speaker_notes |-> chunk]

\* for i in range(0, len(paragraphs), paragraphs_per_slide), with the break once
\* num_points slides exist; i counts from 0 as in the code.
RECURSIVE FallbackLoop(_, _, _, _, _)
FallbackLoop(paragraphs, per_slide, np, i, slides) ==
    IF i >= Len(paragraphs) THEN slides
    ELSE LET chunk == SubSeq(paragraphs, i + 1, Min(i + per_slide, Len(paragraphs)))
             more  == IF chunk = <<>> THEN slides
                      ELSE Append(slides, FallbackSlide(Len(slides) + 1, chunk))
         IN IF chunk # <<>> /\ Len(more) >= np THEN more
            ELSE FallbackLoop(paragraphs, per_slide, np, i + per_slide, more)

\* _fallback_extraction(text, num_points)
FallbackExtraction(text, np) ==
    LET paragraphs == Paragraphs(text)
        paragraphs_per_slide == Max(1, Len(paragraphs) \div np)
    IN FallbackLoop(paragraphs, paragraphs_per_slide, np, 0, <<>>)

\* ---- what the AI service can put in a successful response ----
\* Numbers of bullets an AI slide object can carry.
BulletCounts == {0, 1, 3, 4}

\* The i-th object of an AI array: the fields it has, its title and notes named
\* by its position i, its bullets numbered 1..n.
AIObject(i, fields, n) ==
    [f \in fields |->
        IF f = "bullets" THEN [j \in 1..n |-> j]
        ELSE IF f = "title" THEN [from |-> "ai", n |-> i]
        ELSE <<i>>]

\* The shapes of an AI object: any subset of the three fields; the complete
\* objects carry any of the bullet counts, the others one bullet if any.
SlideShapes ==
    {[fields |-> SlideFields, n |-> b] : b \in BulletCounts}
    \cup {[fields |-> fs, n |-> 1] : fs \in (SUBSET SlideFields) \ {SlideFields}}

AIArrays ==
    UNION {{[i \in 1..n |-> AIObject(i, shapes[i].fields, shapes[i].n)] :
              shapes \in [1..n -> SlideShapes]} : n \in 0..MaxRecords}

\* The response text of the key-points call: not JSON, a JSON scalar, or a JSON
\* array of objects.
KeyPointResponses ==
    {[parses |-> FALSE, shape |-> "text", items |-> <<>>],
     [parses |-> TRUE, shape |-> "number", items |-> <<>>]}
    \cup {[parses |-> TRUE, shape |-> "array", items |-> a] : a \in AIArrays}

\* The response text of the title call: not JSON, or a JSON object with any of
\* the two fields.
TitleResponses ==
    {[parses |-> FALSE, value |-> [f \in {} |-> "ai"]]}
    \cup {[parses |-> TRUE, value |-> [f \in fs |-> "ai"]] : fs \in SUBSET TitleFields}

\* The key-point responses drawn inside the whole stage: not JSON, a scalar, or
\* an array of complete objects with three bullets each.
StageResponses ==
    {r \in KeyPointResponses :
        \A i \in 1..Len(r.items) :
            SlideFields \subseteq DOMAIN r.items[i] /\ Len(r.items[i]["bullets"]) = 3}

NoResponse == [parses |-> FALSE, shape |-> NoValue, items |-> <<>>]

\* ---- extract_key_points ----
\* 'title' in slide and 'bullets' in slide and 'speaker_notes' in slide
HasRequiredFields_Mutant(slide) == "title" \in DOMAIN slide

HasRequiredFields(slide) == SlideFields \subseteq DOMAIN slide

\* The record appended to validated_slides.
ValidatedSlide(slide) ==
    [title |-> slide["title"],
     bullets |-> FirstThree(slide["bullets"]),
     speaker_notes |-> slide["speaker_notes"]]

\* The validation loop: the slides kept, or the KeyError of reading a field the
\* object does not have.
RECURSIVE ValidateFrom(_, _, _)
ValidateFrom(items, i, kept) ==
    IF i > Len(items) THEN [error |-> NoValue, slides |-> kept]
    ELSE IF ~HasRequiredFields(items[i]) THEN ValidateFrom(items, i + 1, kept)
    ELSE IF ~(SlideFields \subseteq DOMAIN items[i])
    THEN [error |-> "KeyError", slides |-> <<>>]
    ELSE ValidateFrom(items, i + 1, Append(kept, ValidatedSlide(items[i])))

\* validated_slides[:max_slides]
Truncate_Mutant(slides, limit) == slides

Truncate(slides, limit) == SubSeq(slides, 1, Min(limit, Len(slides)))

\* The try block of extract_key_points: how _call_gemini ended, then json.loads
\* and the validation loop. error is the exception raised inside the block.
KeyPointsTry(call, response, limit) ==
    IF call # "ok" THEN [error |-> call, slides |-> <<>>]
    ELSE IF ~response.parses THEN [error |-> "JSONDecodeError", slides |-> <<>>]
    ELSE IF response.shape # "array" THEN [error |-> "TypeError", slides |-> <<>>]
    ELSE LET v == ValidateFrom(response.items, 1, <<>>)
         IN [error |-> v.error, slides |-> Truncate(v.slides, limit)]

\* The exceptions the two except clauses of extract_key_points catch:
\* json.JSONDecodeError, then Exception.
KeyPointsCatches_Mutant(error) == error = "JSONDecodeError"

KeyPointsCatches(error) ==
    error \in {"JSONDecodeError", "TypeError", "KeyError", "other_error", "all_keys_failed"}

\* extract_key_points(text, num_points, max_slides), given how its AI call ended.
ExtractKeyPointsResult(text, points, limit, call, response) ==
    LET np == Min(points, limit)
        t  == KeyPointsTry(call, response, limit)
    IN IF t.error = NoValue
       THEN [ended |-> "ok", raised |-> NoValue, path |-> "ai", slides |-> t.slides]
       ELSE IF KeyPointsCatches(t.error)
       THEN [ended |-> t.error, raised |-> NoValue, path |-> "fallback",
             slides |-> FallbackExtraction(text, np)]
       ELSE [ended |-> t.error, raised |-> t.error, path |-> "raised", slides |-> <<>>]

\* ---- generate_title_slide ----
\* filename.replace('_', ' ').replace('.pdf', '') of the default filename "",
\* and the fixed subtitle.
FallbackTitleSlide == [title |-> "", subtitle |-> "Key Insights and Learnings"]

\* except Exception
TitleCatches(error) == error \in {"JSONDecodeError", "other_error", "all_keys_failed"}

GenerateTitleSlideResult(call, response) ==
    LET error == IF call # "ok" THEN call
                 ELSE IF ~response.parses THEN "JSONDecodeError" ELSE NoValue
    IN IF error = NoValue
       THEN [ended |-> "ok", raised |-> NoValue, path |-> "ai", slide |-> response.value]
       ELSE IF TitleCatches(error)
       THEN [ended |-> error, raised |-> NoValue, path |-> "fallback",
             slide |-> FallbackTitleSlide]
       ELSE [ended |-> error, raised |-> error, path |-> "raised",
             slide |-> FallbackTitleSlide]

\* summarize_for_video: the speaker notes of the slides, in order.
SummarizeForVideo(slides) == [k \in 1..Len(slides) |-> slides[k]["speaker_notes"]]

\* The dictionary extract_slides_from_pdf_text returns.
SlidesData(title, slides) ==
    [title_slide |-> title,
     content_slides |-> slides,
     total_slides |-> Len(slides) + 1,
     narration_script |-> SummarizeForVideo(slides)]

NoSlidesData == [total_slides |-> -1]

NoTitleSlide == [none |-> NoValue]

\* ---- extract_slides_from_pdf_text as a process ----
InitSumm ==
    /\ pdf_text \in Texts
    /\ num_points \in 1..MaxNumPoints
    /\ max_slides \in 1..MaxNumPoints
    /\ sum_pc = "title"
    /\ sum_calls = <<>>
    /\ key_points_response = NoResponse
    /\ title_slide = NoTitleSlide
    /\ content_slides = <<>>
    /\ sum_path = [title |-> NoValue, content |-> NoValue]
    /\ slides_data = NoSlidesData

IdleSumm ==
    /\ pdf_text = <<TRUE>>
    /\ num_points = 1
    /\ max_slides = 1
    /\ sum_pc = "idle"
    /\ sum_calls = <<>>
    /\ key_points_response = NoResponse
    /\ title_slide = NoTitleSlide
    /\ content_slides = <<>>
    /\ sum_path = [title |-> NoValue, content |-> NoValue]
    /\ slides_data = NoSlidesData

\* The prompt of the call the stage is at.
StagePrompt == IF sum_pc = "title" THEN TitlePrompt ELSE KeyPointsPrompt

\* The summarizer is about to enter _call_gemini: every call it made so far has
\* ended and been handled.
CallPending ==
    /\ gem_pc = "idle"
    /\ sum_pc \in {"title", "content"}
    /\ gem_calls = Len(sum_calls)

\* _call_gemini has returned or raised into the summarizer.
CallReturned ==
    /\ gem_pc = "idle"
    /\ sum_pc \in {"title", "content"}
    /\ gem_calls = Len(sum_calls) + 1

\* What the service can have answered, given how the call ended.
ResponsesOf(call, responses) == IF call = "ok" THEN responses ELSE {NoResponse}

\* generate_title_slide from the return of its _call_gemini on.
GenerateTitleSlide(response) ==
    /\ UNCHANGED nonSummVars
    /\ sum_pc = "title"
    /\ CallReturned
    /\ LET r == GenerateTitleSlideResult(gem_result.kind, response) IN
       /\ sum_calls' = Append(sum_calls, r.ended)
       /\ title_slide' = r.slide
       /\ sum_path' = [sum_path EXCEPT !.title = r.path]
       /\ sum_pc' = IF r.raised = NoValue THEN "content" ELSE "raised"
    /\ UNCHANGED <<pdf_text, num_points, max_slides, key_points_response,
                   content_slides, slides_data>>

\* extract_key_points from the return of its _call_gemini on.
ExtractKeyPoints(response) ==
    /\ UNCHANGED nonSummVars
    /\ sum_pc = "content"
    /\ CallReturned
    /\ LET r == ExtractKeyPointsResult(pdf_text, num_points, max_slides,
                                       gem_result.kind, response) IN
       /\ sum_calls' = Append(sum_calls, r.ended)
       /\ key_points_response' = response
       /\ content_slides' = r.slides
       /\ sum_path' = [sum_path EXCEPT !.content = r.path]
       /\ sum_pc' = IF r.raised = NoValue THEN "key_points" ELSE "raised"
    /\ UNCHANGED <<pdf_text, num_points, max_slides, title_slide, slides_data>>

\* The return statement of extract_slides_from_pdf_text.
ReturnSlidesData ==
    /\ UNCHANGED nonSummVars
    /\ sum_pc = "key_points"
    /\ sum_pc' = "returned"
    /\ slides_data' = SlidesData(title_slide, content_slides)
    /\ UNCHANGED <<pdf_text, num_points, max_slides, sum_calls, key_points_response,
                   title_slide, content_slides, sum_path>>

\* extract_key_points called on its own, on a fresh summarizer.
InitKeyPoints ==
    /\ pdf_text \in Texts
    /\ num_points \in 1..MaxNumPoints
    /\ max_slides \in 1..MaxNumPoints
    /\ sum_pc = "content"
    /\ sum_calls = <<>>
    /\ key_points_response = NoResponse
    /\ title_slide = NoTitleSlide
    /\ content_slides = <<>>
    /\ sum_path = [title |-> NoValue, content |-> NoValue]
    /\ slides_data = NoSlidesData

NextKeyPoints ==
    \/ CallPending /\ CallGemini(StagePrompt)
    \/ \E outcome \in ServiceOutcomes : GeminiRequest(outcome)
    \/ \E response \in ResponsesOf(gem_result.kind, KeyPointResponses) :
          ExtractKeyPoints(response)

\* ========================================================================
\* video_creator.py
\* ========================================================================
\* title_duration: the display time of the silent title slide, in seconds.
TitleDuration == 3

\* The durations a narration recording can have, in seconds.
Durations == {2, 5}

\* The decimal digits of a natural number, most significant first.
RECURSIVE Digits(_)
Digits(n) == IF n < 10 THEN <<n>> ELSE Append(Digits(n \div 10), n % 10)

\* The format specification {i:02d}: at least two digits, padded with zeros.
Fmt02(i) == IF i < 10 THEN <<0, i>> ELSE Digits(i)

\* The number a digit sequence reads as.
RECURSIVE DigitsValue(_)
DigitsValue(d) ==
    IF d = <<>> THEN 0 ELSE 10 * DigitsValue(SubSeq(d, 1, Len(d) - 1)) + d[Len(d)]

\* A file name <stem>_<digits>.<ext> inside its directory.
FileName(stem, digits) == [stem |-> stem, digits |-> digits]

\* None in the place of a path
NoPath == FileName(NoValue, <<>>)

\* No file at output_path
NoFile == [written |-> FALSE]

\* f"slide_{i:02d}.png" of convert_pdf_to_images, for page i of enumerate(pages).
SlideImageName(i) == FileName("slide", Fmt02(i))

\* f"audio_{i:02d}.mp3" of generate_tts_audio, for slide i of
\* enumerate(data['content_slides'], 1).
AudioIndex_Mutant(k) == k - 1

AudioIndex(k) == k

AudioFileName(i) == FileName("audio", Fmt02(i))

\* String order of two names of one directory with the same stem and extension:
\* the digits are compared left to right, and where one name's digits end the '.'
\* that follows sorts before any digit.
RECURSIVE DigitsLess(_, _)
DigitsLess(a, b) ==
    IF a = <<>> THEN b # <<>>
    ELSE IF b = <<>> THEN FALSE
    ELSE IF Head(a) # Head(b) THEN Head(a) < Head(b)
    ELSE DigitsLess(Tail(a), Tail(b))

\* sorted(...glob(...)): the names of a directory in string order.
RECURSIVE SortedNames(_)
SortedNames(names) ==
    IF names = {} THEN <<>>
    ELSE LET first == CHOOSE x \in names :
                        \A y \in names \ {x} : DigitsLess(x.digits, y.digits)
         IN  <<first>> \o SortedNames(names \ {first})

EmptyDir == [x \in {} |-> 0]

\* convert_pdf_to_images: one PNG per page of the PDF, numbered from 0.
ConvertPdfToImages(pages) ==
    [files |-> [nm \in {SlideImageName(i) : i \in 0..(pages - 1)} |->
                    DigitsValue(nm.digits)],
     image_paths |-> [j \in 1..pages |-> SlideImageName(j - 1)]]

\* generate_tts_audio up to and including content slide `last`: the silent title
\* entry, then one recording per content slide.
TtsClips(last) ==
    <<[path |-> NoPath, duration |-> TitleDuration]>> \o
    [k \in 1..last |-> [path |-> AudioFileName(AudioIndex(k)), duration |-> speech_dur[k]]]

TtsFiles(last) ==
    [nm \in {AudioFileName(AudioIndex(k)) : k \in 1..last} |->
        speech_dur[CHOOSE k \in 1..last : AudioFileName(AudioIndex(k)) = nm]]

\* The else branch of step 2 of create_video_complete: the existing recordings in
\* sorted order, each with the duration read from the file.
ExistingAudioClips(dir) ==
    [j \in 1..Cardinality(DOMAIN dir) |->
        [path |-> SortedNames(DOMAIN dir)[j],
         duration |-> dir[SortedNames(DOMAIN dir)[j]]]]

\* f1 overwritten and extended by the files of f2
Overwrite(f1, f2) ==
    [x \in (DOMAIN f1) \cup (DOMAIN f2) |-> IF x \in DOMAIN f2 THEN f2[x] ELSE f1[x]]

\* The loop of VideoCreator.create_video over zip(slide_images, audio_clips): one
\* clip per pair, with the audio attached when the entry names an existing file.
VideoClips(images, clips, dir) ==
    [j \in 1..Min(Len(images), Len(clips)) |->
        [image |-> images[j],
         duration |-> clips[j].duration,
         audio |-> IF clips[j].path # NoPath /\ clips[j].path \in DOMAIN dir
                   THEN clips[j].path ELSE NoPath]]

InitVideo ==
    /\ pdf_pages \in 0..(MaxSlides + 1)
    /\ json_slides \in -1..MaxSlides
    /\ speech_dur \in [1..(IF json_slides < 0 THEN 0 ELSE json_slides) -> Durations]
    /\ images_dir = EmptyDir
    /\ audio_dir = EmptyDir
    /\ vid_pc = "idle"
    /\ slide_images = <<>>
    /\ audio_clips = <<>>
    /\ vid_reused = {}
    /\ vid_error = NoValue
    /\ video_file = NoFile
    /\ vid_built = FALSE
    /\ vid_runs = 0

IdleVideo ==
    /\ pdf_pages = 0
    /\ json_slides = -1
    /\ speech_dur = <<>>
    /\ images_dir = EmptyDir
    /\ audio_dir = EmptyDir
    /\ vid_pc = "idle"
    /\ slide_images = <<>>
    /\ audio_clips = <<>>
    /\ vid_reused = {}
    /\ vid_error = NoValue
    /\ video_file = NoFile
    /\ vid_built = FALSE
    /\ vid_runs = 0

videoInputs == <<pdf_pages, json_slides, speech_dur>>

\* create_video_complete is called.
StartVideoRun ==
    /\ UNCHANGED nonVideoVars
    /\ vid_pc \in {"idle", "done", "raised"}
    /\ vid_runs < MaxVideoRuns
    /\ vid_pc' = "rasterize"
    /\ slide_images' = <<>>
    /\ audio_clips' = <<>>
    /\ vid_reused' = {}
    /\ vid_error' = NoValue
    /\ vid_built' = FALSE
    /\ vid_runs' = vid_runs + 1
    /\ UNCHANGED <<videoInputs, images_dir, audio_dir, video_file>>

\* A sub-step whose failure is swallowed: the function goes on to the next step.
StepRaises_Mutant(step) ==
    /\ vid_pc' = IF step = "rasterize" THEN "narrate"
                 ELSE IF step = "narrate" THEN "build" ELSE "raised"
    /\ vid_error' = step

\* What a failure inside a sub-step does to create_video_complete: the function has
\* no handler, the exception leaves it.
StepRaises(step) ==
    /\ vid_pc' = "raised"
    /\ vid_error' = step

\* Step 1: convert the PDF to images, or use the images found in images_dir.
VideoRasterize ==
    /\ UNCHANGED nonVideoVars
    /\ vid_pc = "rasterize"
    /\ IF DOMAIN images_dir = {}
       THEN IF pdf_pages = 0
            THEN /\ StepRaises("rasterize")
                 /\ UNCHANGED <<images_dir, slide_images, vid_reused>>
            ELSE LET r == ConvertPdfToImages(pdf_pages) IN
                 /\ images_dir' = Overwrite(images_dir, r.files)
                 /\ slide_images' = r.image_paths
                 /\ vid_pc' = "narrate"
                 /\ UNCHANGED <<vid_error, vid_reused>>
       ELSE /\ slide_images' = SortedNames(DOMAIN images_dir)
            /\ vid_reused' = vid_reused \cup {"images"}
            /\ vid_pc' = "narrate"
            /\ UNCHANGED <<images_dir, vid_error>>
    /\ UNCHANGED <<videoInputs, audio_dir, audio_clips, video_file, vid_built, vid_runs>>

\* Step 2: synthesize the narration, or use the recordings found in audio_dir.
\* fail_at = 0: the speech service answers every request; fail_at = k: the request
\* for content slide k fails.
VideoNarrate(fail_at) ==
    /\ UNCHANGED nonVideoVars
    /\ vid_pc = "narrate"
    /\ IF DOMAIN audio_dir = {}
       THEN IF json_slides < 0
            THEN /\ fail_at = 0
                 /\ StepRaises("narrate")
                 /\ UNCHANGED <<audio_dir, audio_clips, vid_reused>>
            ELSE /\ fail_at \in 0..json_slides
                 /\ IF fail_at = 0
                    THEN /\ audio_dir' = Overwrite(audio_dir, TtsFiles(json_slides))
                         /\ audio_clips' = TtsClips(json_slides)
                         /\ vid_pc' = "build"
                         /\ UNCHANGED vid_error
                    ELSE /\ audio_dir' = Overwrite(audio_dir, TtsFiles(fail_at - 1))
                         /\ StepRaises("narrate")
                         /\ UNCHANGED audio_clips
                 /\ UNCHANGED vid_reused
       ELSE /\ fail_at = 0
            /\ audio_clips' = ExistingAudioClips(audio_dir)
            /\ vid_reused' = vid_reused \cup {"audio"}
            /\ vid_pc' = "build"
            /\ UNCHANGED <<audio_dir, vid_error>>
    /\ UNCHANGED <<videoInputs, images_dir, slide_images, video_file, vid_built, vid_runs>>

\* Step 3: VideoCreator().create_video(slide_images, audio_clips, ...); ok tells
\* whether the rendering went through.
VideoBuild(ok) ==
    /\ UNCHANGED nonVideoVars
    /\ vid_pc = "build"
    /\ vid_built' = TRUE
    /\ IF ok
       THEN /\ video_file' = [written |-> TRUE,
                               clips |-> VideoClips(slide_images, audio_clips, audio_dir)]
            /\ vid_pc' = "done"
            /\ UNCHANGED vid_error
       ELSE /\ StepRaises("build")
            /\ UNCHANGED video_file
    /\ UNCHANGED <<videoInputs, images_dir, audio_dir, slide_images, audio_clips,
                   vid_reused, vid_runs>>

\* Between two calls the user removes one of the intermediate directories.
RemoveDir(which) ==
    /\ UNCHANGED nonVideoVars
    /\ vid_pc \in {"done", "raised"}
    /\ vid_runs < MaxVideoRuns
    /\ IF which = "images"
       THEN /\ DOMAIN images_dir # {}
            /\ images_dir' = EmptyDir
            /\ UNCHANGED audio_dir
       ELSE /\ DOMAIN audio_dir # {}
            /\ audio_dir' = EmptyDir
            /\ UNCHANGED images_dir
    /\ UNCHANGED <<videoInputs, vid_pc, slide_images, audio_clips, vid_reused,
                   vid_error, video_file, vid_built, vid_runs>>

NextVideo ==
    \/ StartVideoRun
    \/ VideoRasterize
    \/ \E fail_at \in 0..MaxSlides : VideoNarrate(fail_at)
    \/ \E ok \in BOOLEAN : VideoBuild(ok)
    \/ \E which \in {"images", "audio"} : RemoveDir(which)

\* ========================================================================
\* image_generator.py : the icon acquisition chain
\* ========================================================================
\* A phrase is the sequence of its blank-separated words; str.split() and
\* " ".join() move between a phrase and its words.

\* str.lower() on the words the model uses
Lower(w) ==
    CASE w = "The"    -> "the"
      [] w = "Data:"  -> "data:"
      [] w = "Chart"  -> "chart"
      [] w = "Map"    -> "map"
      [] w = "Circle" -> "circle"
      [] OTHER        -> w

\* str.strip(',:;.!?') on the words the model uses
StripPunct(w) == IF w = "data:" THEN "data" ELSE w

\* len(word) > 3 on the words the model uses
LongerThan3(w) == w \notin {"the", "map", "of", "a"}

stop_words == {"the", "a", "an", "and", "or", "but", "in", "on", "at", "to", "for",
               "of", "with", "by", "from", "up", "about", "into", "through", "during"}

generic_fallbacks == <<"icon", "symbol", "graphic", "element", "concept">>

\* The hard-coded generic term of the final attempt.
GenericTerm == <<"circle">>

\* range(2): the number of alternative phrases asked for
AlternativeRetries == 2

\* The first element of a sequence that satisfies no membership in `avoid`, as a
\* one-word phrase; <<>> when there is none.
RECURSIVE FirstNotAvoided(_, _)
FirstNotAvoided(ws, avoid) ==
    IF ws = <<>> THEN <<>>
    ELSE IF <<Head(ws)>> \notin avoid THEN <<Head(ws)>>
    ELSE FirstNotAvoided(Tail(ws), avoid)

\* The candidates of _extract_alternative_from_title, in title order.
RECURSIVE TitleCandidates(_)
TitleCandidates(title) ==
    IF title = <<>> THEN <<>>
    ELSE LET clean_word == StripPunct(Lower(Head(title))) IN
         IF clean_word \notin stop_words /\ LongerThan3(clean_word)
         THEN <<clean_word>> \o TitleCandidates(Tail(title))
         ELSE TitleCandidates(Tail(title))

\* IconSearchQueryGenerator._extract_alternative_from_title
ExtractAlternativeFromTitle(title, avoid_queries) ==
    LET avoid == Range(avoid_queries)
        c == FirstNotAvoided(TitleCandidates(title), avoid)
        g == FirstNotAvoided(generic_fallbacks, avoid)
    IN  IF c # <<>> THEN c
        ELSE IF g # <<>> THEN g
        ELSE <<"circle">>

\* query.strip()...lower(); words = query.split()[:3]; " ".join(words)
CleanQuery(response) ==
    LET lowered == [i \in 1..Len(response) |-> Lower(response[i])]
    IN  SubSeq(lowered, 1, Min(3, Len(lowered)))

\* What _call_gemini gives generate_alternative_query: a text, or an exception.
GeminiError == <<"#error">>
AlternativeAnswers ==
    {GeminiError, <<>>, <<"Chart">>, <<"circle">>, <<"data", "chart">>,
     <<"icon", "data", "chart", "circle">>}

\* IconSearchQueryGenerator.generate_alternative_query
GenerateAlternativeQuery(slide_title, failed, answer) ==
    IF answer = GeminiError
    THEN ExtractAlternativeFromTitle(slide_title, failed)
    ELSE LET query == CleanQuery(answer) IN
         IF query \in Range(failed)
         THEN ExtractAlternativeFromTitle(slide_title, failed)
         ELSE query

\* The arguments of search_and_download
Queries == {<<>>, <<"circle">>, <<"data">>, <<"data", "chart">>, <<"circle", "chart">>,
            <<"chart", "data", "map">>}
Titles == {<<>>, <<"The", "Data:", "Chart">>, <<"The", "Map">>, <<"Circle">>}
IconCalls == [query : Queries, generator : BOOLEAN, slide_title : Titles,
              bullets : 0..1]

\* What one _try_search_download can meet.
TryOutcomes == {"ok", "search_error", "search_not_200", "no_icons", "no_url",
                "download_error", "download_not_200"}

\* The value _try_search_download returns
TrySucceeds(outcome) == outcome = "ok"

\* if query_generator and slide_title and bullets
AlternativesAvailable(call) ==
    call.generator /\ call.slide_title # <<>> /\ call.bullets > 0

NoFetch == [fetched |-> FALSE]

InitIcon ==
    /\ icon_pc = "idle"
    /\ icon_call = [query |-> <<>>, generator |-> FALSE, slide_title |-> <<>>,
                    bullets |-> 0]
    /\ failed_queries = <<>>
    /\ attempts = <<>>
    /\ alternatives = <<>>
    /\ retry_num = 0
    /\ icon_ret = NoValue
    /\ icon_file = NoFetch
    /\ icon_calls = 0

IdleIcon == InitIcon

\* search_and_download is called: failed_queries = [].
SearchAndDownload(call) ==
    /\ UNCHANGED nonIconVars
    /\ icon_pc \in {"idle", "done"}
    /\ icon_calls < MaxIconCalls
    /\ icon_pc' = "original"
    /\ icon_call' = call
    /\ failed_queries' = <<>>
    /\ attempts' = <<>>
    /\ alternatives' = <<>>
    /\ retry_num' = 0
    /\ icon_ret' = NoValue
    /\ icon_calls' = icon_calls + 1
    /\ UNCHANGED icon_file

\* Where the chain goes after the first-word step (taken or skipped).
AfterFirstWord(call) == IF AlternativesAvailable(call) THEN "alt_ask" ELSE "circle"

\* Where the chain goes after the original query failed.
AfterOriginal_Mutant(call) == AfterFirstWord(call)

AfterOriginal(call) ==
    IF Len(call.query) > 1 THEN "first_word" ELSE AfterFirstWord(call)

\* One _try_search_download(phrase, save_path, limit) with the given outcome, and
\* the `if ...: return True` that follows it.
TryPhrase(phrase, outcome) ==
    /\ attempts' = Append(attempts, [phrase |-> phrase, ok |-> TrySucceeds(outcome)])
    /\ IF TrySucceeds(outcome)
       THEN /\ icon_file' = [fetched |-> TRUE, phrase |-> phrase]
            /\ icon_ret' = "True"
            /\ icon_pc' = "done"
       ELSE UNCHANGED icon_file

\* Attempt 1: the original query.
TryOriginal(outcome) ==
    /\ UNCHANGED nonIconVars
    /\ icon_pc = "original"
    /\ TryPhrase(icon_call.query, outcome)
    /\ IF TrySucceeds(outcome)
       THEN UNCHANGED failed_queries
       ELSE /\ failed_queries' = Append(failed_queries, icon_call.query)
            /\ icon_pc' = AfterOriginal(icon_call)
            /\ UNCHANGED icon_ret
    /\ UNCHANGED <<icon_call, alternatives, retry_num, icon_calls>>

\* Attempt 2: the first word of a multi-word query.
TryFirstWord(outcome) ==
    /\ UNCHANGED nonIconVars
    /\ icon_pc = "first_word"
    /\ LET fallback_query == <<icon_call.query[1]>> IN
       /\ TryPhrase(fallback_query, outcome)
       /\ IF TrySucceeds(outcome)
          THEN UNCHANGED failed_queries
          ELSE /\ failed_queries' = Append(failed_queries, fallback_query)
               /\ icon_pc' = AfterFirstWord(icon_call)
               /\ UNCHANGED icon_ret
    /\ UNCHANGED <<icon_call, alternatives, retry_num, icon_calls>>

\* Attempts 3-4: an alternative is asked for and tried.
TryAlternative(answer, outcome) ==
    /\ UNCHANGED nonIconVars
    /\ icon_pc = "alt_ask"
    /\ LET alt_query == GenerateAlternativeQuery(icon_call.slide_title,
                                                 failed_queries, answer) IN
       /\ alternatives' = Append(alternatives, alt_query)
       /\ TryPhrase(alt_query, outcome)
       /\ IF TrySucceeds(outcome)
          THEN UNCHANGED <<failed_queries, retry_num>>
          ELSE /\ failed_queries' = Append(failed_queries, alt_query)
               /\ retry_num' = retry_num + 1
               /\ icon_pc' = IF retry_num + 1 < AlternativeRetries
                             THEN "alt_ask" ELSE "circle"
               /\ UNCHANGED icon_ret
    /\ UNCHANGED <<icon_call, icon_calls>>

\* Final fallback: return self._try_search_download("circle", ...).
TryGeneric(outcome) ==
    /\ UNCHANGED nonIconVars
    /\ icon_pc = "circle"
    /\ TryPhrase(GenericTerm, outcome)
    /\ IF TrySucceeds(outcome)
       THEN TRUE
       ELSE /\ icon_ret' = "False"
            /\ icon_pc' = "done"
    /\ UNCHANGED <<icon_call, failed_queries, alternatives, retry_num, icon_calls>>

NextIcon ==
    \/ \E call \in IconCalls : SearchAndDownload(call)
    \/ \E outcome \in TryOutcomes : TryOriginal(outcome)
    \/ \E outcome \in TryOutcomes : TryFirstWord(outcome)
    \/ \E answer \in AlternativeAnswers, outcome \in TryOutcomes :
          TryAlternative(answer, outcome)
    \/ \E outcome \in TryOutcomes : TryGeneric(outcome)

\* ========================================================================
\* image_generator.py : generate_icon_query
\* ========================================================================
\* IconSearchQueryGenerator._fallback_query: the first word of the title that is
\* no stop word and longer than three characters, else "document".
FallbackQuery(title) ==
    LET usable == TitleCandidates(title) IN
    IF usable # <<>> THEN <<usable[1]>> ELSE <<"document">>

\* IconSearchQueryGenerator.generate_icon_query: the cleaned response, or the
\* fallback when anything inside the try raised.
GenerateIconQuery(slide_title, answer) ==
    IF answer = GeminiError THEN FallbackQuery(slide_title) ELSE CleanQuery(answer)

InitQuery ==
    /\ giq_pc = "called"
    /\ giq_title \in Titles
    /\ giq_answer \in AlternativeAnswers
    /\ giq_query = <<>>

IdleQuery ==
    /\ giq_pc = "idle"
    /\ giq_title = <<>>
    /\ giq_answer = <<>>
    /\ giq_query = <<>>

\* query_gen.generate_icon_query(slide['title'], slide['bullets'])
IconQuery ==
    /\ UNCHANGED nonQueryVars
    /\ giq_pc = "called"
    /\ giq_pc' = "returned"
    /\ giq_query' = GenerateIconQuery(giq_title, giq_answer)
    /\ UNCHANGED <<giq_title, giq_answer>>

\* The loop of generate_icons_for_slides asks for the query of the next slide.
IconQueryNext(title, answer) ==
    /\ UNCHANGED nonQueryVars
    /\ giq_pc = "returned"
    /\ giq_pc' = "called"
    /\ giq_title' = title
    /\ giq_answer' = answer
    /\ UNCHANGED giq_query

NextQuery ==
    \/ IconQuery
    \/ \E title \in Titles, answer \in AlternativeAnswers : IconQueryNext(title, answer)

\* ========================================================================
\* image_generator.py : one _try_search_download
\* ========================================================================
\* limit: int = 1, the default every caller leaves in place.
DefaultLimit == 1

\* The two URL fields of an icon record the code reads, in the order it reads
\* them.
UrlFields == {"thumbnail_url", "icon_url"}

\* An icon of the search result: any of the two fields, each empty or a URL.
IconObjects ==
    UNION {[fields -> {"", "thumb.png", "icon.svg"}] : fields \in SUBSET UrlFields}

\* The body of a search answer: not JSON, an object without "icons", or an object
\* whose "icons" holds at most MaxCandidates icons.
SearchBodies ==
    {[json |-> FALSE]}
    \cup {[json |-> TRUE, value |-> [f \in {} |-> <<>>]]}
    \cup {[json |-> TRUE, value |-> [icons |-> list]] :
            list \in UNION {[1..n -> IconObjects] : n \in 0..MaxCandidates}}

\* requests.get raises, or answers with a status and a body.
SearchResponses ==
    {[kind |-> "error"]}
    \cup {[kind |-> "http", status |-> st, body |-> b] :
            st \in {200, 404}, b \in SearchBodies}

DownloadResponses ==
    {[kind |-> "error"]} \cup {[kind |-> "http", status |-> st] : st \in {200, 404}}

NoIconFile == [exists |-> FALSE, content |-> NoValue]

\* The file at save_path before the attempt: absent, or left by an earlier one.
IconFilesBefore == {NoIconFile, [exists |-> TRUE, content |-> "earlier"]}

\* dict.get(key): None, here the empty string, when the key is absent.
Get(object, key) == IF key \in DOMAIN object THEN object[key] ELSE ""

\* icon.get("thumbnail_url") or icon.get("icon_url")
ThumbnailUrl(icon) ==
    IF Get(icon, "thumbnail_url") # "" THEN Get(icon, "thumbnail_url")
    ELSE Get(icon, "icon_url")

\* resp.status_code != 200 / img_resp.status_code == 200
StatusOk_Mutant(status) == TRUE

StatusOk(status) == status = 200

\* return False, from the body of the try or from `except Exception`.
TryFailed(requests, file) ==
    [ret |-> FALSE, raised |-> FALSE, requests |-> requests, file |-> file]

\* _try_search_download(query, save_path, limit): the value returned, the
\* requests made and the file at save_path afterwards.
TrySearchDownload(query, limit, search, download, file) ==
    LET searched == <<[to |-> "search", query |-> query, limit |-> limit]>> IN
    IF search.kind = "error" THEN TryFailed(searched, file)
    ELSE IF ~StatusOk(search.status) THEN TryFailed(searched, file)
    ELSE IF ~search.body.json THEN TryFailed(searched, file)
    ELSE LET data  == search.body.value
             icons == IF "icons" \in DOMAIN data THEN data.icons ELSE <<>>
         IN
         IF icons = <<>> THEN TryFailed(searched, file)
         ELSE LET thumbnail_url == ThumbnailUrl(icons[1])
                  requested == Append(searched, [to |-> "download",
                                                 url |-> thumbnail_url])
              IN
              IF thumbnail_url = "" THEN TryFailed(searched, file)
              ELSE IF download.kind = "error" THEN TryFailed(requested, file)
              ELSE IF StatusOk(download.status)
              THEN [ret |-> TRUE, raised |-> FALSE, requests |-> requested,
                    file |-> [exists |-> TRUE, content |-> thumbnail_url]]
              ELSE TryFailed(requested, file)

NoTryResult == [ret |-> FALSE, raised |-> FALSE, requests |-> <<>>, file |-> NoIconFile]

InitTry ==
    /\ try_pc = "called"
    /\ try_search \in SearchResponses
    /\ try_download \in DownloadResponses
    /\ try_file \in IconFilesBefore
    /\ try_result = NoTryResult

IdleTry ==
    /\ try_pc = "idle"
    /\ try_search = [kind |-> "error"]
    /\ try_download = [kind |-> "error"]
    /\ try_file = NoIconFile
    /\ try_result = NoTryResult

\* self._try_search_download(query, save_path, limit) as search_and_download
\* calls it.
TrySearchAndDownload(query) ==
    /\ UNCHANGED nonTryVars
    /\ try_pc = "called"
    /\ try_pc' = "returned"
    /\ try_result' = TrySearchDownload(query, DefaultLimit, try_search, try_download,
                                       try_file)
    /\ try_file' = try_result'.file
    /\ UNCHANGED <<try_search, try_download>>

\* The next attempt of the chain, against the file the last one left.
TryAgain(search, download) ==
    /\ UNCHANGED nonTryVars
    /\ try_pc = "returned"
    /\ ~try_result.ret
    /\ try_pc' = "called"
    /\ try_search' = search
    /\ try_download' = download
    /\ UNCHANGED <<try_file, try_result>>

NextTry ==
    \/ \E query \in Queries : TrySearchAndDownload(query)
    \/ \E search \in SearchResponses, download \in DownloadResponses :
          TryAgain(search, download)

\* ========================================================================
\* run_pipeline.py, and the file names the stages agree on
\* ========================================================================
\* output_dir / f"slide_{i:02d}.png" of generate_icons_for_slides, for slide i of
\* enumerate(data['content_slides'], 1)
IconFileName(i) == FileName("slide", Fmt02(i))

\* f'slide_{i}', the key of icon_paths
IconKey(i) == FileName("slide", Digits(i))

\* title.png
TitleIconName == FileName("title", <<>>)

\* The slide number SlideCreator.create_presentation hands _create_content_slide
\* for the k-th content slide: enumerate(self.data['content_slides'], 1)
PptxSlideNum_Mutant(k) == k - 1

PptxSlideNum(k) == k

\* self.icons_dir / f"slide_{slide_num:02d}.png" of SlideCreator
PptxIconName(slide_num) == FileName("slide", Fmt02(slide_num))

\* The slide number PDFSlideCreator.create_presentation hands
\* _create_content_slide for the k-th content slide
PdfSlideNum(k) == k

\* self.icons_dir / f"slide_{slide_num:02d}.png" of PDFSlideCreator
PdfIconName(slide_num) == FileName("slide", Fmt02(slide_num))

\* A rendered page: the slide it shows, the icon file it looks up, and whether
\* icon_path.exists() let it draw the icon.
DeckPage(slide, icon, dir) == [slide |-> slide, icon |-> icon, drawn |-> icon \in dir]

\* SlideCreator.create_presentation: the title slide, then one slide per
\* content slide.
PptxDeck(n, dir) ==
    <<DeckPage(0, TitleIconName, dir)>> \o
    [k \in 1..n |-> DeckPage(k, PptxIconName(PptxSlideNum(k)), dir)]

\* PDFSlideCreator.create_presentation: the title page, then one page per
\* content slide.
PdfDeck(n, dir) ==
    <<DeckPage(0, TitleIconName, dir)>> \o
    [k \in 1..n |-> DeckPage(k, PdfIconName(PdfSlideNum(k)), dir)]

\* What --input can name.
CliInputs ==
    {[kind |-> "missing", pdfs |-> 0], [kind |-> "file", pdfs |-> 0]}
    \cup {[kind |-> "dir", pdfs |-> n] : n \in 0..MaxDirPdfs}

InitPipe ==
    /\ cli_input \in CliInputs
    /\ pipe_pc = "main"
    /\ steps_done = <<>>
    /\ step_raised = 0
    /\ exit_code = -1
    /\ icons_dir = {}
    /\ icon_paths = {}
    /\ pptx_deck = <<>>
    /\ pdf_deck = <<>>

IdlePipe ==
    /\ cli_input = [kind |-> "missing", pdfs |-> 0]
    /\ pipe_pc = "idle"
    /\ steps_done = <<>>
    /\ step_raised = 0
    /\ exit_code = -1
    /\ icons_dir = {}
    /\ icon_paths = {}
    /\ pptx_deck = <<>>
    /\ pdf_deck = <<>>

\* sys.exit(0 if success else 1)
ExitCodeOf_Mutant(success) == 0

ExitCodeOf(success) == IF success THEN 0 ELSE 1

\* A step whose exception is logged and the run goes on with the next step.
StepFails_Mutant(n) ==
    /\ step_raised' = n
    /\ pipe_pc' = <<"step2", "step3", "step4", "step5", "step6", "exited">>[n]
    /\ exit_code' = IF n = 6 THEN ExitCodeOf(FALSE) ELSE exit_code
    /\ UNCHANGED steps_done

\* The except clause of run_pipeline: the exception of step n is caught, the run
\* returns False and main exits.
StepFails(n) ==
    /\ step_raised' = n
    /\ pipe_pc' = "exited"
    /\ exit_code' = ExitCodeOf(FALSE)
    /\ UNCHANGED steps_done

StepCompletes(n, next) ==
    /\ steps_done' = Append(steps_done, n)
    /\ pipe_pc' = next
    /\ UNCHANGED <<step_raised, exit_code>>

\* The exit status of the interpreter when an exception reaches the top level.
UncaughtExitCode == 1

\* main up to the first step of run_pipeline: the directory lookup, then
\* run_pipeline's own existence check and the creation of the output directories
\* (outside the try block; mkdir_ok tells whether it went through).
Main(mkdir_ok) ==
    /\ UNCHANGED <<stageIdleVars, videoVars>>
    /\ pipe_pc = "main"
    /\ IF cli_input.kind = "dir" /\ cli_input.pdfs = 0
       THEN /\ exit_code' = 1
            /\ pipe_pc' = "exited"
       ELSE IF cli_input.kind = "missing"
       THEN /\ exit_code' = ExitCodeOf(FALSE)
            /\ pipe_pc' = "exited"
       ELSE IF ~mkdir_ok
       THEN /\ exit_code' = UncaughtExitCode
            /\ pipe_pc' = "exited"
       ELSE /\ pipe_pc' = "step1"
            /\ UNCHANGED exit_code
    /\ UNCHANGED <<cli_input, steps_done, step_raised, icons_dir, icon_paths,
                   pptx_deck, pdf_deck>>

\* Step 1: PDF text extraction.
PipeStep1(raises) ==
    /\ UNCHANGED <<stageIdleVars, videoVars>>
    /\ pipe_pc = "step1"
    /\ IF raises THEN StepFails(1) ELSE StepCompletes(1, "step2")
    /\ UNCHANGED <<cli_input, icons_dir, icon_paths, pptx_deck, pdf_deck>>

\* Step 2: extract_slides_from_pdf_text and the writing of slides.json; n is the
\* number of content slides the summarizer returned, durs the length of the
\* narration of each.
PipeStep2(raises, n, durs) ==
    /\ UNCHANGED stageIdleVars
    /\ pipe_pc = "step2"
    /\ IF raises
       THEN /\ StepFails(2)
            /\ UNCHANGED <<json_slides, speech_dur>>
       ELSE /\ StepCompletes(2, "step3")
            /\ json_slides' = n
            /\ speech_dur' = durs
    /\ UNCHANGED <<pdf_pages, images_dir, audio_dir, vid_pc, slide_images, audio_clips,
                   vid_reused, vid_error, video_file, vid_built, vid_runs>>
    /\ UNCHANGED <<cli_input, icons_dir, icon_paths, pptx_deck, pdf_deck>>

\* Step 3: generate_icons_for_slides; title_ok and saved tell for which slides
\* search_and_download returned True.
PipeStep3(raises, title_ok, saved) ==
    /\ UNCHANGED <<stageIdleVars, videoVars>>
    /\ pipe_pc = "step3"
    /\ IF raises
       THEN /\ StepFails(3)
            /\ UNCHANGED <<icons_dir, icon_paths>>
       ELSE /\ StepCompletes(3, "step4")
            /\ icons_dir' = {IconFileName(i) : i \in saved}
                            \cup (IF title_ok THEN {TitleIconName} ELSE {})
            /\ icon_paths' = {IconKey(i) : i \in saved}
                             \cup (IF title_ok THEN {TitleIconName} ELSE {})
    /\ UNCHANGED <<cli_input, pptx_deck, pdf_deck>>

\* Step 4: create_slides (PowerPoint).
PipeStep4(raises) ==
    /\ UNCHANGED <<stageIdleVars, videoVars>>
    /\ pipe_pc = "step4"
    /\ IF raises
       THEN /\ StepFails(4)
            /\ UNCHANGED pptx_deck
       ELSE /\ StepCompletes(4, "step5")
            /\ pptx_deck' = PptxDeck(json_slides, icons_dir)
    /\ UNCHANGED <<cli_input, icons_dir, icon_paths, pdf_deck>>

\* Step 5: create_pdf_slides; the deck PDF has one page per rendered slide.
PipeStep5(raises) ==
    /\ UNCHANGED stageIdleVars
    /\ pipe_pc = "step5"
    /\ IF raises
       THEN /\ StepFails(5)
            /\ UNCHANGED <<pdf_deck, pdf_pages>>
       ELSE /\ StepCompletes(5, "step6")
            /\ pdf_deck' = PdfDeck(json_slides, icons_dir)
            /\ pdf_pages' = json_slides + 1
    /\ UNCHANGED <<json_slides, speech_dur, images_dir, audio_dir, vid_pc, slide_images,
                   audio_clips, vid_reused, vid_error, video_file, vid_built, vid_runs>>
    /\ UNCHANGED <<cli_input, icons_dir, icon_paths, pptx_deck>>

\* Step 6: create_video_complete has returned or raised.
PipeStep6 ==
    /\ UNCHANGED <<stageIdleVars, videoVars>>
    /\ pipe_pc = "step6"
    /\ vid_pc \in {"done", "raised"}
    /\ IF vid_pc = "raised"
       THEN StepFails(6)
       ELSE /\ steps_done' = Append(steps_done, 6)
            /\ pipe_pc' = "exited"
            /\ exit_code' = ExitCodeOf(TRUE)
            /\ UNCHANGED step_raised
    /\ UNCHANGED <<cli_input, icons_dir, icon_paths, pptx_deck, pdf_deck>>

\* Step 6 calls create_video_complete once.
InStep6 == pipe_pc = "step6" /\ vid_runs = 0

NextPipe ==
    \/ \E mkdir_ok \in BOOLEAN : Main(mkdir_ok)
    \/ \E raises \in BOOLEAN : PipeStep1(raises)
    \/ \E raises \in BOOLEAN, n \in 0..MaxSlides :
          \E durs \in [1..n -> Durations] : PipeStep2(raises, n, durs)
    \/ \E raises \in BOOLEAN, title_ok \in BOOLEAN, saved \in SUBSET (1..json_slides) :
          PipeStep3(raises, title_ok, saved)
    \/ \E raises \in BOOLEAN : PipeStep4(raises)
    \/ \E raises \in BOOLEAN : PipeStep5(raises)
    \/ InStep6 /\ StartVideoRun
    \/ VideoRasterize
    \/ \E fail_at \in 0..MaxSlides : VideoNarrate(fail_at)
    \/ \E ok \in BOOLEAN : VideoBuild(ok)
    \/ PipeStep6

\* ========================================================================
\* Steps 2 and 3 of run_pipeline with the summarizer and the query generator
\* ========================================================================
\* IconSearchQueryGenerator.__init__: self.current_key_index = 0, whatever index
\* another object (here the summarizer, at index `other`) has reached.
NewGeneratorIndex_Mutant(other) == other

NewGeneratorIndex(other) == 0

IdleQueryGen ==
    /\ qgen_pc = "none"
    /\ qgen_key_index = 0
    /\ qgen_client_key = 0
    /\ title_query = <<>>

\* The answers of the service to the successive requests of one call: `limited`
\* rate-limit errors, then `final`.
OutcomeRuns ==
    {[limited |-> r, final |-> f] : r \in 0..NumKeys, f \in {"ok", "other_error"}}

\* IconSearchQueryGenerator._call_gemini from iteration `attempt` on, for a
\* generator at `index` with client `client`: how the call ends and where it
\* leaves the generator.
RECURSIVE QueryCallGemini(_, _, _, _)
QueryCallGemini(index, client, attempt, run) ==
    IF attempt >= NumKeys
    THEN [kind |-> "all_keys_failed", index |-> index, client |-> client]
    ELSE IF attempt >= run.limited
    THEN [kind |-> run.final, index |-> index, client |-> client]
    ELSE LET nxt == TryNextKey(index, client) IN
         IF nxt.ok
         THEN QueryCallGemini(nxt.index, nxt.client, attempt + 1, run)
         ELSE [kind |-> "all_keys_failed", index |-> nxt.index, client |-> nxt.client]

\* The words of a successful response to the query prompt.
QueryWords == {"w1", "w2", "w3", "w4"}

QueryResponses ==
    {<<>>, <<"w1">>, <<"w1", "w2">>, <<"w1", "w2", "w3">>, <<"w1", "w2", "w3", "w4">>}

\* query.split()[:3]
FirstThreeWords(words) == SubSeq(words, 1, Min(3, Len(words)))

\* _fallback_query: the first usable word of the title, else "document".
FallbackQueries == {<<"titleword">>, <<"document">>}

\* query_gen = IconSearchQueryGenerator(), the first statement of step 3 that
\* touches a credential.
NewQueryGenerator ==
    /\ UNCHANGED <<extractVars, geminiVars, summVars, videoVars, iconVars, pipeVars,
                   wrapVars, renderVars, tryVars,
                   queryVars>>
    /\ pipe_pc = "step3"
    /\ qgen_pc = "none"
    /\ qgen_pc' = "ready"
    /\ qgen_key_index' = NewGeneratorIndex(current_key_index)
    /\ qgen_client_key' = InitClient(NewGeneratorIndex(current_key_index), qgen_client_key)
    /\ UNCHANGED title_query

\* The title-slide query of generate_icons_for_slides: the two fields are read
\* from data['title_slide'] (a KeyError leaves the stage and is caught by
\* run_pipeline), then generate_icon_query runs and absorbs every AI error.
TitleIconQuery(run, answer) ==
    /\ UNCHANGED <<extractVars, geminiVars, summVars, videoVars, iconVars,
                   wrapVars, renderVars, tryVars,
                   queryVars>>
    /\ pipe_pc = "step3"
    /\ qgen_pc = "ready"
    /\ IF ~(TitleFields \subseteq DOMAIN slides_data.title_slide)
       THEN /\ qgen_pc' = "raised"
            /\ StepFails(3)
            /\ UNCHANGED <<qgen_key_index, qgen_client_key, title_query>>
       ELSE LET c == QueryCallGemini(qgen_key_index, qgen_client_key, 0, run) IN
            /\ qgen_pc' = "queried"
            /\ qgen_key_index' = c.index
            /\ qgen_client_key' = c.client
            /\ answer \in (IF c.kind = "ok" THEN QueryResponses ELSE FallbackQueries)
            /\ title_query' = IF c.kind = "ok" THEN FirstThreeWords(answer) ELSE answer
            /\ UNCHANGED <<pipe_pc, steps_done, step_raised, exit_code>>
    /\ UNCHANGED <<cli_input, icons_dir, icon_paths, pptx_deck, pdf_deck>>

\* run_pipeline has completed step 1 and is at step 2.
AtStep2 ==
    /\ cli_input = [kind |-> "file", pdfs |-> 0]
    /\ pipe_pc = "step2"
    /\ steps_done = <<1>>
    /\ step_raised = 0
    /\ exit_code = -1
    /\ icons_dir = {}
    /\ icon_paths = {}
    /\ pptx_deck = <<>>
    /\ pdf_deck = <<>>

\* run_pipeline has written slides.json and is at step 3; the title slide is any
\* record generate_title_slide can return.
AtStep3 ==
    /\ cli_input = [kind |-> "file", pdfs |-> 0]
    /\ pipe_pc = "step3"
    /\ steps_done = <<1, 2>>
    /\ step_raised = 0
    /\ exit_code = -1
    /\ icons_dir = {}
    /\ icon_paths = {}
    /\ pptx_deck = <<>>
    /\ pdf_deck = <<>>

ReturnedSumm ==
    /\ pdf_text = <<TRUE>>
    /\ num_points = 1
    /\ max_slides = 1
    /\ sum_pc = "returned"
    /\ sum_calls = <<"ok", "ok">>
    /\ key_points_response = [parses |-> TRUE, shape |-> "array", items |-> <<>>]
    /\ title_slide \in {r.value : r \in {t \in TitleResponses : t.parses}}
    /\ content_slides = <<>>
    /\ sum_path = [title |-> "ai", content |-> "ai"]
    /\ slides_data = SlidesData(title_slide, content_slides)

\* The narration length step 2 of this model hands to the video stage.
NarrationLength == CHOOSE d \in Durations : TRUE

\* Step 2 ends: extract_slides_from_pdf_text has returned or raised, and
\* slides.json is written (`raises` also covers a failure of that write).
StageEnded == sum_pc \in {"returned", "raised"}

NextSumm ==
    \/ CallPending /\ CallGemini(StagePrompt)
    \/ \E outcome \in ServiceOutcomes : GeminiRequest(outcome)
    \/ \E response \in ResponsesOf(gem_result.kind, TitleResponses) :
          GenerateTitleSlide(response)
    \/ \E response \in ResponsesOf(gem_result.kind, StageResponses) :
          ExtractKeyPoints(response)
    \/ ReturnSlidesData
    \/ \E raises \in BOOLEAN :
          /\ StageEnded
          /\ sum_pc = "raised" => raises
          /\ PipeStep2(raises, Len(content_slides),
                       [k \in 1..Len(content_slides) |-> NarrationLength])
    \/ NewQueryGenerator

\* Step 3 of run_pipeline up to the title-slide query.
NextIconQuery ==
    \/ NewQueryGenerator
    \/ \E run \in OutcomeRuns, answer \in QueryResponses \cup FallbackQueries :
          TitleIconQuery(run, answer)

\* ========================================================================
\* pdf_slide_creator.py : the greedy word-wrap
\* ========================================================================
\* The copies of the loop: the _wrap_text helper and the inlined loops for the
\* title and the subtitle of the title slide, the title of a content slide and a
\* bullet.
WrapSites == {"_wrap_text", "title", "subtitle", "slide_title", "bullet"}

\* The measured width of the blank that joins two words of a line.
SpaceWidth == 1

\* The measured width of the "-" the bullet loop puts in front of the text.
DashWidth == 1

\* text.split(): a text is the sequence of the measured widths of its words.
WordLists == UNION {[1..n -> 1..MaxWordWidth] : n \in 0..MaxWords}

\* The words the loop of a site iterates over: f"- {bullet}".split() for a bullet.
WordsAt(site, words) == IF site = "bullet" THEN <<DashWidth>> \o words ELSE words

RECURSIVE SumWidths(_)
SumWidths(line) == IF line = <<>> THEN 0 ELSE Head(line) + SumWidths(Tail(line))

\* c.stringWidth(line, font, size) of words joined by single blanks.
StringWidth(line) ==
    IF line = <<>> THEN 0 ELSE SumWidths(line) + (Len(line) - 1) * SpaceWidth

\* c.stringWidth(test_line, ...) < max_width
FitsInLine(test_line, limit) == StringWidth(test_line) < limit

\* The loop over the words from word i on, then the final `if current_line`.
RECURSIVE WrapFrom(_, _, _, _, _)
WrapFrom(words, i, current_line, lines, limit) ==
    IF i > Len(words)
    THEN IF current_line # <<>> THEN Append(lines, current_line) ELSE lines
    ELSE LET test_line == Append(current_line, words[i]) IN
         IF FitsInLine(test_line, limit)
         THEN WrapFrom(words, i + 1, test_line, lines, limit)
         ELSE WrapFrom(words, i + 1, <<words[i]>>,
                       IF current_line # <<>> THEN Append(lines, current_line) ELSE lines,
                       limit)

\* _wrap_text(text, max_width, font, size, c) and its inlined copies.
WrapText_Mutant(words, limit) ==
    WrapFrom(SubSeq(words, 1, Len(words) - 1), 1, <<>>, <<>>, limit)

WrapText(words, limit) == WrapFrom(words, 1, <<>>, <<>>, limit)

InitWrap ==
    /\ wrap_site \in WrapSites
    /\ wrap_words \in WordLists
    /\ wrap_limit \in 1..MaxLimit
    /\ wrap_pc = "called"
    /\ wrap_lines = <<>>

IdleWrap ==
    /\ wrap_site = "_wrap_text"
    /\ wrap_words = <<>>
    /\ wrap_limit = 1
    /\ wrap_pc = "idle"
    /\ wrap_lines = <<>>

\* One run of the loop at wrap_site.
Wrap ==
    /\ UNCHANGED <<pipelineVars, renderVars>>
    /\ wrap_pc = "called"
    /\ wrap_pc' = "returned"
    /\ wrap_lines' = WrapText(WordsAt(wrap_site, wrap_words), wrap_limit)
    /\ UNCHANGED <<wrap_site, wrap_words, wrap_limit>>

\* The renderer measures the next text.
WrapNext(site, words, limit) ==
    /\ UNCHANGED <<pipelineVars, renderVars>>
    /\ wrap_pc = "returned"
    /\ wrap_pc' = "called"
    /\ wrap_site' = site
    /\ wrap_words' = words
    /\ wrap_limit' = limit
    /\ wrap_lines' = <<>>

NextWrap ==
    \/ Wrap
    \/ \E site \in WrapSites, words \in WordLists, limit \in 1..MaxLimit :
          WrapNext(site, words, limit)

\* ========================================================================
\* slide_creator.py / pdf_slide_creator.py : rendering with the icon files
\* ========================================================================
\* The icon file each renderer looks up for slide k, k = 0 being the title slide.
PptxIconOf(k) == IF k = 0 THEN TitleIconName ELSE PptxIconName(PptxSlideNum(k))

PdfIconOf(k) == IF k = 0 THEN TitleIconName ELSE PdfIconName(PdfSlideNum(k))

\* The icon files the icon stage can have left for n content slides: any of
\* title.png and slide_01.png .. slide_n.png, each holding whatever bytes the
\* download returned, an image or not.
IconDirs(n) ==
    UNION {[present -> BOOLEAN] :
             present \in SUBSET ({TitleIconName} \cup {IconFileName(k) : k \in 1..n})}

NoDeckFile == [state |-> NoValue, pages |-> <<>>, at |-> -1]

\* self.colors of SlideCreator: RGBColor(r, g, b), for the four palette entries.
PptxColors ==
    [primary |-> <<41, 98, 255>>, secondary |-> <<16, 185, 129>>,
     purple |-> <<139, 92, 246>>, pink |-> <<236, 72, 153>>]

\* self.colors of PDFSlideCreator: (r/255, g/255, b/255), each component kept as
\* the fraction it is written as.
PdfColors ==
    [name \in DOMAIN PptxColors |->
        CASE name = "primary"   -> <<<<41, 255>>, <<98, 255>>, <<255, 255>>>>
          [] name = "secondary" -> <<<<16, 255>>, <<185, 255>>, <<129, 255>>>>
          [] name = "purple"    -> <<<<139, 255>>, <<92, 255>>, <<246, 255>>>>
          [] name = "pink"      -> <<<<236, 255>>, <<72, 255>>, <<153, 255>>>>]

\* colors = [primary, secondary, purple, pink] of SlideCreator;
\* slide_color = colors[slide_num % len(colors)]
PptxSlideColor(slide_num) ==
    LET colors == <<PptxColors.primary, PptxColors.secondary,
                    PptxColors.purple, PptxColors.pink>>
    IN  colors[(slide_num % Len(colors)) + 1]

\* color_options = [primary, secondary, purple, pink] of PDFSlideCreator;
\* slide_color = color_options[slide_num % len(color_options)]
PdfSlideColor_Mutant(slide_num) ==
    LET color_options == <<PdfColors.primary, PdfColors.secondary,
                           PdfColors.purple, PdfColors.pink>>
    IN  color_options[((slide_num - 1) % Len(color_options)) + 1]

PdfSlideColor(slide_num) ==
    LET color_options == <<PdfColors.primary, PdfColors.secondary,
                           PdfColors.purple, PdfColors.pink>>
    IN  color_options[(slide_num % Len(color_options)) + 1]

\* The title slide has no accent colour of its own.
NoAccent == <<>>

\* A slide added to a deck: its accent colour, and whether the icon background
\* and the icon were drawn.
RenderedSlide_Mutant(k, accent, frame, drawn) ==
    [slide |-> IF k > 1 THEN k - 1 ELSE k, accent |-> accent, frame |-> frame,
     drawn |-> drawn]

RenderedSlide(k, accent, frame, drawn) ==
    [slide |-> k, accent |-> accent, frame |-> frame, drawn |-> drawn]

\* SlideCreator: slides k..n are added in turn; add_picture of a file that is not
\* an image raises and nothing catches it, so prs.save is never reached.
RECURSIVE PptxRender(_, _, _, _)
PptxRender(n, files, k, pages) ==
    IF k > n THEN [state |-> "saved", pages |-> pages, at |-> -1]
    ELSE LET icon == PptxIconOf(k)
             accent == IF k = 0 THEN NoAccent ELSE PptxSlideColor(PptxSlideNum(k))
         IN
         IF icon \notin DOMAIN files
         THEN PptxRender(n, files, k + 1,
                         Append(pages, RenderedSlide(k, accent, FALSE, FALSE)))
         ELSE IF files[icon]
         THEN PptxRender(n, files, k + 1,
                         Append(pages, RenderedSlide(k, accent, k > 0, TRUE)))
         ELSE [state |-> "raised", pages |-> pages, at |-> k]

\* try: ImageReader / drawImage  except: pass
PdfIconDrawn(files, icon) == icon \in DOMAIN files /\ files[icon]

\* PDFSlideCreator: every page is drawn and shown, the icon only when the file
\* decodes; c.save() is always reached.
PdfRender(n, files) ==
    [state |-> "saved",
     pages |-> [j \in 1..(n + 1) |->
                  RenderedSlide(j - 1,
                                IF j = 1 THEN NoAccent
                                ELSE PdfSlideColor(PdfSlideNum(j - 1)),
                                j > 1 /\ PdfIconOf(j - 1) \in DOMAIN files,
                                PdfIconDrawn(files, PdfIconOf(j - 1)))],
     at |-> -1]

InitRender ==
    /\ deck_slides \in 0..MaxDeckSlides
    /\ icon_files \in IconDirs(deck_slides)
    /\ pptx_out = NoDeckFile
    /\ pdf_out = NoDeckFile

IdleRender ==
    /\ deck_slides = 0
    /\ icon_files = [f \in {} |-> TRUE]
    /\ pptx_out = NoDeckFile
    /\ pdf_out = NoDeckFile

\* create_slides: SlideCreator.create_presentation
CreateSlides ==
    /\ UNCHANGED <<pipelineVars, wrapVars>>
    /\ pptx_out = NoDeckFile
    /\ pptx_out' = PptxRender(deck_slides, icon_files, 0, <<>>)
    /\ UNCHANGED <<deck_slides, icon_files, pdf_out>>

\* create_pdf_slides: PDFSlideCreator.create_presentation
CreatePdfSlides ==
    /\ UNCHANGED <<pipelineVars, wrapVars>>
    /\ pdf_out = NoDeckFile
    /\ pdf_out' = PdfRender(deck_slides, icon_files)
    /\ UNCHANGED <<deck_slides, icon_files, pptx_out>>

NextRender ==
    \/ CreateSlides
    \/ CreatePdfSlides

\* ========================================================================
\* Specifications
\* ========================================================================
StartExtract ==
    /\ InitExtract /\ IdleGemini /\ IdleSumm /\ IdleQueryGen
    /\ IdleVideo /\ IdleIcon /\ IdlePipe /\ IdleWrap /\ IdleRender
    /\ IdleTry /\ IdleQuery

SpecExtract ==
    /\ StartExtract
    /\ [][NextExtract]_vars

StartGemini ==
    /\ IdleExtract /\ InitGemini /\ IdleSumm /\ IdleQueryGen
    /\ IdleVideo /\ IdleIcon /\ IdlePipe /\ IdleWrap /\ IdleRender
    /\ IdleTry /\ IdleQuery

SpecGemini ==
    /\ StartGemini
    /\ [][NextGemini]_vars

\* A request that was sent is answered: generate_content returns or raises.
SpecGeminiFair ==
    /\ SpecGemini
    /\ WF_vars(\E outcome \in ServiceOutcomes : GeminiRequest(outcome))

StartVideo ==
    /\ IdleExtract /\ IdleGemini /\ IdleSumm /\ IdleQueryGen
    /\ InitVideo /\ IdleIcon /\ IdlePipe /\ IdleWrap /\ IdleRender
    /\ IdleTry /\ IdleQuery

SpecVideo ==
    /\ StartVideo
    /\ [][NextVideo]_vars

\* The pipeline starts in an output directory without intermediate files.
StartPipeline ==
    /\ IdleExtract /\ IdleGemini /\ IdleSumm /\ IdleQueryGen
    /\ IdleVideo /\ IdleIcon /\ InitPipe /\ IdleWrap /\ IdleRender
    /\ IdleTry /\ IdleQuery

SpecPipeline ==
    /\ StartPipeline
    /\ [][NextPipe]_vars

\* extract_slides_from_pdf_text inside step 2 of run_pipeline, up to the first
\* icon query of step 3. run_pipeline asks for 8 slides; the model draws the
\* target from 1..MaxNumPoints.
StartSummarize ==
    /\ IdleExtract /\ InitGemini /\ InitSumm /\ IdleQueryGen
    /\ IdleVideo /\ IdleIcon /\ AtStep2 /\ IdleWrap /\ IdleRender
    /\ IdleTry /\ IdleQuery

SpecSummarize ==
    /\ StartSummarize
    /\ [][NextSumm]_vars

\* extract_key_points alone, with every shape of AI response.
StartKeyPoints ==
    /\ IdleExtract /\ InitGemini /\ InitKeyPoints /\ IdleQueryGen
    /\ IdleVideo /\ IdleIcon /\ IdlePipe /\ IdleWrap /\ IdleRender
    /\ IdleTry /\ IdleQuery

SpecKeyPoints ==
    /\ StartKeyPoints
    /\ [][NextKeyPoints]_vars

StartIconQuery ==
    /\ IdleExtract /\ IdleGemini /\ ReturnedSumm /\ IdleQueryGen
    /\ IdleVideo /\ IdleIcon /\ AtStep3 /\ IdleWrap /\ IdleRender
    /\ IdleTry /\ IdleQuery

SpecIconQuery ==
    /\ StartIconQuery
    /\ [][NextIconQuery]_vars

StartWrap ==
    /\ IdleExtract /\ IdleGemini /\ IdleSumm /\ IdleQueryGen
    /\ IdleVideo /\ IdleIcon /\ IdlePipe /\ InitWrap /\ IdleRender
    /\ IdleTry /\ IdleQuery

SpecWrap ==
    /\ StartWrap
    /\ [][NextWrap]_vars

StartRender ==
    /\ IdleExtract /\ IdleGemini /\ IdleSumm /\ IdleQueryGen
    /\ IdleVideo /\ IdleIcon /\ IdlePipe /\ IdleWrap /\ InitRender
    /\ IdleTry /\ IdleQuery

SpecRender ==
    /\ StartRender
    /\ [][NextRender]_vars

StartTry ==
    /\ IdleExtract /\ IdleGemini /\ IdleSumm /\ IdleQueryGen
    /\ IdleVideo /\ IdleIcon /\ IdlePipe /\ IdleWrap /\ IdleRender
    /\ InitTry /\ IdleQuery

SpecTry ==
    /\ StartTry
    /\ [][NextTry]_vars

StartQuery ==
    /\ IdleExtract /\ IdleGemini /\ IdleSumm /\ IdleQueryGen
    /\ IdleVideo /\ IdleIcon /\ IdlePipe /\ IdleWrap /\ IdleRender
    /\ IdleTry /\ InitQuery

SpecQuery ==
    /\ StartQuery
    /\ [][NextQuery]_vars

StartIcon ==
    /\ IdleExtract /\ IdleGemini /\ IdleSumm /\ IdleQueryGen
    /\ IdleVideo /\ InitIcon /\ IdlePipe /\ IdleWrap /\ IdleRender
    /\ IdleTry /\ IdleQuery

SpecIcon ==
    /\ StartIcon
    /\ [][NextIcon]_vars

\* ========================================================================
\* Claims
\* ========================================================================

\* The texts a finished parser call returned, with the page each came from.
ReturnedPages ==
    IF last_call.op = "init" THEN {}
    ELSE IF last_call.op = "extract_text_from_page"
    THEN {<<doc[last_call.page_num + 1], last_call.results[1]>>}
    ELSE {<<doc[i], last_call.results[i]>> : i \in 1..Len(doc)}

\* C1: for every page, extract_text_from_page returns the (stripped) digital
\* text when its length exceeds the threshold 100; otherwise it returns the
\* longer of the digital and the OCR text, the digital text on a tie.
C1_Triage ==
    \A pr \in ReturnedPages :
        LET d == Strip(pr[1].digital)
            o == Strip(pr[1].ocr)
        IN  pr[2].text = IF d.core > 100 THEN d
                         ELSE IF o.core > d.core THEN o
                         ELSE d

\* A page at the threshold with an equally long OCR text was extracted: the
\* digital text does not exceed the threshold, and the tie keeps it.
C1_Witness ==
    \E pr \in ReturnedPages :
        /\ Strip(pr[1].digital).core = 100
        /\ Strip(pr[1].ocr).core = 100
        /\ pr[1].ocr.pad > 0
        /\ pr[2].text.src = "digital"

\* C10: a rate-limit-like error moves _call_gemini to the next credential in
\* list order with the same prompt, and 'All API keys failed' is raised only
\* after every credential of the pool has been tried for that call.
C10_AllKeysTriedInCall ==
    /\ gem_result.kind \in {"ok", "all_keys_failed", "other_error"} =>
          \A i \in 1..Len(gem_result.requests) :
              /\ gem_result.requests[i].prompt = gem_result.prompt
              /\ i > 1 => gem_result.requests[i].key = gem_result.requests[i-1].key + 1
    /\ gem_result.kind = "all_keys_failed" =>
          {r.key : r \in Range(gem_result.requests)} = 0..(NumKeys - 1)

\* The (slide image, audio-or-silent, duration) pairings that create_video makes of
\* the two lists it is handed.
Pairing(images, clips) ==
    [j \in 1..Min(Len(images), Len(clips)) |->
        <<images[j], clips[j].path, clips[j].duration>>]

\* C6: in every run of create_video_complete the audio list handed to the video
\* builder starts with the title entry, which has no audio file and lasts 3.0 s,
\* and every entry after it has an audio file.
C6_TitleEntrySilent ==
    vid_pc = "build" =>
        /\ Len(audio_clips) >= 1
        /\ audio_clips[1] = [path |-> NoPath, duration |-> 3]
        /\ \A j \in 2..Len(audio_clips) : audio_clips[j].path # NoPath

\* C7: for the same deck and slide JSON, a run that reuses existing slide images
\* and/or audio files hands the video builder the same pairings, slide by slide,
\* as a run that regenerates them from scratch.
C7_ResumeSamePairing ==
    (vid_pc = "build" /\ pdf_pages = json_slides + 1) =>
        Pairing(slide_images, audio_clips) =
            Pairing(ConvertPdfToImages(pdf_pages).image_paths, TtsClips(json_slides))

\* C8: when the rasterize or the narration sub-step fails, the failure leaves
\* create_video_complete, the video build step is not started and the call
\* writes no video file.
C8_FailureAborts ==
    [][vid_error' \in {"rasterize", "narrate"} =>
          /\ vid_pc' = "raised"
          /\ vid_built' = FALSE
          /\ video_file' = video_file]_vars

\* The speech service failed after the slide images had been written.
C8_Witness ==
    /\ vid_error = "narrate"
    /\ vid_pc = "raised"
    /\ DOMAIN images_dir # {}
    /\ json_slides >= 1

\* The phrases of the documented chain for a call, given the alternatives that
\* were generated: (a) the derived phrase, (b) its first word when it has several
\* words, (c) the alternatives, (d) the generic term.
DocumentedChain(call, alts) ==
    <<call.query>>
    \o (IF Len(call.query) > 1 THEN <<<<call.query[1]>>>> ELSE <<>>)
    \o alts
    \o <<<<"circle">>>>

\* C2: within one search_and_download call the phrases are attempted in the order
\* derived phrase, first word (multi-word only), up to two alternatives, "circle";
\* nothing is attempted after a success, and failure is returned only after the
\* "circle" attempt failed.
C2_ChainOrder ==
    LET n == Len(attempts)
        chain == DocumentedChain(icon_call, alternatives)
    IN  icon_pc # "idle" =>
        /\ Len(alternatives) <= 2
        /\ n <= Len(chain)
        /\ \A i \in 1..n : attempts[i].phrase = chain[i]
        /\ \A i \in 1..(n - 1) : ~attempts[i].ok
        /\ (n > 0 /\ attempts[n].ok) => (icon_pc = "done" /\ icon_ret = "True")
        /\ icon_ret = "True" => (n > 0 /\ attempts[n].ok)
        /\ icon_ret = "False" =>
              (n = Len(chain) /\ attempts[n].phrase = <<"circle">> /\ ~attempts[n].ok)
        /\ icon_pc = "done" => icon_ret \in {"True", "False"}

\* A multi-word query whose second alternative was the first phrase to succeed.
C2_Witness ==
    /\ icon_pc = "done"
    /\ icon_ret = "True"
    /\ Len(icon_call.query) > 1
    /\ Len(alternatives) = 2
    /\ Len(attempts) = 4

\* C3: one search_and_download call makes at most 4 _try_search_download calls.
C3_AtMostFourAttempts == Len(attempts) <= 4

\* C4: within one search_and_download call every phrase passed to
\* _try_search_download differs from all phrases attempted earlier in the call.
C4_NoRepeatedPhrase ==
    \A i, j \in 1..Len(attempts) : i < j => attempts[i].phrase # attempts[j].phrase

\* The name <stem>_<k written with two digits>
Numbered(nm, stem, k) ==
    /\ nm.stem = stem
    /\ Len(nm.digits) = 2
    /\ DigitsValue(nm.digits) = k

\* C5: for n content slides every stage indexes slide k (1 <= k <= n) by the same
\* 1-based number: the icon resolver writes slide_{k:02d}.png under key slide_k,
\* both renderers look up slide_{k:02d}.png for the k-th content slide, the
\* narration step writes audio_{k:02d}.mp3, and the rasterizer names the k-th
\* content page slide_{k:02d}.png, index 0 being the title page; the numbers are
\* contiguous.
C5_SameNumbering ==
    LET n == json_slides IN
    /\ \A nm \in icons_dir \ {TitleIconName} :
          \E k \in 1..n : Numbered(nm, "slide", k) /\ FileName("slide", Digits(k)) \in icon_paths
    /\ \A key \in icon_paths \ {TitleIconName} :
          \E k \in 1..n : key.digits = Digits(k) /\ (\E nm \in icons_dir : Numbered(nm, "slide", k))
    /\ \A deck \in {pptx_deck, pdf_deck} :
          deck # <<>> =>
             /\ Len(deck) = n + 1
             /\ deck[1].slide = 0
             /\ \A k \in 1..n : deck[k + 1].slide = k /\ Numbered(deck[k + 1].icon, "slide", k)
             /\ \A k \in 1..n : deck[k + 1].drawn <=> (FileName("slide", Digits(k)) \in icon_paths)
    /\ vid_pc \in {"build", "done"} =>
          /\ Len(audio_clips) = n + 1
          /\ audio_clips[1].path = NoPath
          /\ \A k \in 1..n : /\ Numbered(audio_clips[k + 1].path, "audio", k)
                             /\ audio_clips[k + 1].path \in DOMAIN audio_dir
          /\ Len(slide_images) = n + 1
          /\ \A j \in 0..n : /\ Numbered(slide_images[j + 1], "slide", j)
                             /\ images_dir[slide_images[j + 1]] = j
                             /\ pdf_deck[j + 1].slide = j

\* A run with two content slides or more, the icon of the second one saved, that
\* reached the video builder.
C5_Witness ==
    /\ json_slides >= 2
    /\ IconKey(2) \in icon_paths
    /\ vid_pc = "done"
    /\ exit_code = 0

\* C9: the process exits with code 0 exactly when all six steps completed
\* without raising, and with code 1 when the input path does not exist, the
\* input directory holds no PDF, or a step raised.
C9_ExitCode ==
    /\ (pipe_pc = "exited") <=> (exit_code # -1)
    /\ exit_code # -1 =>
          /\ exit_code \in {0, 1}
          /\ (exit_code = 0) <=> (steps_done = <<1, 2, 3, 4, 5, 6>> /\ step_raised = 0)
          /\ cli_input.kind = "missing" => exit_code = 1
          /\ (cli_input.kind = "dir" /\ cli_input.pdfs = 0) => exit_code = 1
          /\ step_raised # 0 => exit_code = 1

\* A run whose video step raised after the five steps before it completed.
C9_Witness ==
    /\ exit_code = 1
    /\ step_raised = 6
    /\ steps_done = <<1, 2, 3, 4, 5>>

\* ------------------------------------------------------------------------
\* The summarization stage
\* ------------------------------------------------------------------------
\* The path the k-th AI call of extract_slides_from_pdf_text ended on.
PathOfCall(k) == IF k = 1 THEN sum_path.title ELSE sum_path.content

\* C11 as stated: an AI error that is not rate-limit-like is not absorbed by the
\* stage that issued the call, so extract_slides_from_pdf_text raises and the
\* run is reported as failed by step 2.
C11_ErrorPropagates ==
    "other_error" \in Range(sum_calls) =>
        /\ sum_pc = "raised"
        /\ pipe_pc # "step2" => step_raised = 2

\* C11 amended: an AI error that is not rate-limit-like rotates no credential
\* and leaves _call_gemini at once, but the function that issued the call
\* absorbs it: generate_title_slide returns its default record and
\* extract_key_points its fallback slides, the stage never raises, and
\* run_pipeline goes on to step 3 with that content unless writing slides.json
\* fails.
C11_ErrorAbsorbed ==
    /\ gem_result.kind = "other_error" =>
          LET last == gem_result.requests[Len(gem_result.requests)] IN
          /\ last.index = current_key_index
          /\ last.key = client_key
    /\ \A k \in 1..Len(sum_calls) :
          sum_calls[k] = "other_error" => PathOfCall(k) = "fallback"
    /\ "other_error" \in Range(sum_calls) =>
          /\ sum_pc # "raised"
          /\ sum_path.title = "fallback" => title_slide = FallbackTitleSlide
          /\ pipe_pc = "step3" => json_slides = Len(content_slides)

\* Both AI calls of the stage ended with a non-rate-limit error, the second one
\* after a rotation, and run_pipeline reached step 3.
C11_Witness ==
    /\ sum_calls = <<"other_error", "other_error">>
    /\ current_key_index > 0
    /\ pipe_pc = "step3"
    /\ step_raised = 0

\* C12: when the response to the key-points prompt is not parseable JSON,
\* extract_key_points does not raise: it returns the slides of the
\* paragraph-chunking fallback, titled 'Key Point 1' .. 'Key Point m' without a
\* gap and at most num_points of them, and run_pipeline carries exactly these
\* slides into the later steps.
C12_FallbackOnParseError ==
    (sum_pc \in {"key_points", "returned", "raised"}
        /\ sum_calls[Len(sum_calls)] = "JSONDecodeError") =>
        /\ sum_pc # "raised"
        /\ sum_path.content = "fallback"
        /\ Len(content_slides) <= num_points
        /\ \A k \in 1..Len(content_slides) :
              /\ content_slides[k]["title"] = [from |-> "Key Point", n |-> k]
              /\ content_slides[k]["bullets"] # <<>>
        /\ sum_pc = "returned" => slides_data.content_slides = content_slides
        /\ pipe_pc = "step3" => json_slides = Len(content_slides)

\* An unparseable key-points response after a parsed title response, two
\* fallback slides, and run_pipeline at step 3 with them.
C12_Witness ==
    /\ sum_calls = <<"ok", "JSONDecodeError">>
    /\ Len(content_slides) = 2
    /\ pipe_pc = "step3"
    /\ json_slides = 2

\* The objects of the key-points response that carry all three fields.
CompleteObjects ==
    {i \in 1..Len(key_points_response.items) :
        SlideFields \subseteq DOMAIN key_points_response.items[i]}

\* s is a prefix of t.
IsPrefix(s, t) == Len(s) <= Len(t) /\ \A j \in 1..Len(s) : s[j] = t[j]

\* C13: every content slide extract_key_points returns, on the AI path and on
\* the fallback path, has exactly the fields title, bullets and speaker_notes
\* and at most 3 bullets; on the AI path an object of the response that lacks
\* one of the three fields is dropped, a kept slide carries the title, the notes
\* and the leading bullets of its object, and the kept slides are in the order
\* of the response (the first max_slides complete objects).
C13_ValidatedSlides ==
    /\ \A k \in 1..Len(content_slides) :
          /\ DOMAIN content_slides[k] = SlideFields
          /\ Len(content_slides[k]["bullets"]) <= 3
    /\ (sum_pc = "key_points" /\ key_points_response.parses
            /\ key_points_response.shape = "array") =>
          LET items == key_points_response.items IN
          /\ sum_path.content = "ai"
          /\ Len(content_slides) = Min(max_slides, Cardinality(CompleteObjects))
          /\ \A k \in 1..Len(content_slides) :
                LET i == content_slides[k]["title"].n IN
                /\ i \in CompleteObjects
                /\ content_slides[k]["title"] = items[i]["title"]
                /\ content_slides[k]["speaker_notes"] = items[i]["speaker_notes"]
                /\ IsPrefix(content_slides[k]["bullets"], items[i]["bullets"])
                /\ Cardinality({j \in CompleteObjects : j <= i}) = k

\* A response of two objects, the first without speaker notes and the second
\* complete with four bullets: only the second is returned, with three bullets.
C13_Witness ==
    /\ sum_pc = "key_points"
    /\ sum_path.content = "ai"
    /\ Len(key_points_response.items) = 2
    /\ CompleteObjects = {2}
    /\ Len(key_points_response.items[2]["bullets"]) = 4
    /\ Len(content_slides) = 1
    /\ Len(content_slides[1]["bullets"]) = 3

\* C14 as stated: every slide record of the summarization stage carries
\* between 2 and 3 bullets.
C14_TwoToThreeBullets ==
    \A k \in 1..Len(content_slides) : Len(content_slides[k]["bullets"]) \in 2..3

\* C14 amended: a slide record carries at most 3 bullets and no lower bound is
\* enforced. On the AI path it carries the first three bullets of its object,
\* so 0 or 1 bullets when the AI returned that few; on the fallback path it
\* carries the first three paragraphs of its chunk, at least 1 and only 1 when
\* the chunk is a single paragraph.
C14_AtMostThreeBullets ==
    \A k \in 1..Len(content_slides) :
        LET slide == content_slides[k] IN
        /\ Len(slide["bullets"]) <= 3
        /\ sum_path.content = "fallback" =>
              /\ Len(slide["bullets"]) >= 1
              /\ Len(slide["bullets"]) = Min(3, Len(slide["speaker_notes"]))
        /\ sum_path.content = "ai" =>
              Len(slide["bullets"]) =
                  Min(3, Len(key_points_response.items[slide["title"].n]["bullets"]))

\* A fallback run of two slides whose first slide has a single bullet.
C14_Witness ==
    /\ sum_pc = "key_points"
    /\ sum_path.content = "fallback"
    /\ Len(content_slides) = 2
    /\ Len(content_slides[1]["bullets"]) = 1

C19_SharedKeyIndex ==
    qgen_pc # "none" => qgen_key_index = current_key_index

\* C19 amended: each of the two objects has its own credential index. The index
\* of the summarizer is shared by its two AI calls, but the icon-query generator
\* constructed in step 3 starts again at index 0 with the first credential,
\* whatever index the summarizer was advanced to.
C19_OwnKeyIndex ==
    /\ qgen_pc # "none" => qgen_key_index = 0 /\ qgen_client_key = 0
    /\ (gem_pc = "request" /\ Len(sum_calls) = 1 /\ gem_tried = <<>>) =>
          current_key_index = Cardinality(gem_limited)

\* The summarizer was advanced to its third credential and the generator was
\* constructed after it.
C19_Witness ==
    /\ qgen_pc = "ready"
    /\ current_key_index = 2
    /\ qgen_key_index = 0

\* C20: the title-slide record generate_title_slide returns has both a title
\* and a subtitle field, for every parseable AI response and on the error
\* fallback.
C20_TitleSlideFields ==
    sum_pc \in {"content", "key_points", "returned"} =>
        TitleFields \subseteq DOMAIN title_slide

\* ------------------------------------------------------------------------
\* The order of the stages
\* ------------------------------------------------------------------------
\* The step run_pipeline is at, 0 outside the six steps.
StepAt ==
    CASE pipe_pc = "step1" -> 1 [] pipe_pc = "step2" -> 2 [] pipe_pc = "step3" -> 3
      [] pipe_pc = "step4" -> 4 [] pipe_pc = "step5" -> 5 [] pipe_pc = "step6" -> 6
      [] OTHER -> 0

FirstSteps(k) == [i \in 1..k |-> i]

\* C18: run_pipeline executes extract, summarize, icons, PPTX, PDF, video in
\* this order: the completed steps are always 1..k without a gap or a repeat, a
\* step is entered only when exactly the steps before it have completed, the
\* artifacts of a step exist only once the steps before it completed, the video
\* stage is run once and only after step 5, and once a step raised no later
\* step is started and the run is reported as failed.
C18_StageOrder ==
    /\ \E k \in 0..6 : steps_done = FirstSteps(k)
    /\ StepAt # 0 => steps_done = FirstSteps(StepAt - 1) /\ step_raised = 0
    /\ step_raised # 0 =>
          /\ pipe_pc = "exited"
          /\ steps_done = FirstSteps(step_raised - 1)
          /\ exit_code = 1
    /\ json_slides >= 0 => Len(steps_done) >= 2
    /\ (icons_dir # {} \/ icon_paths # {}) => Len(steps_done) >= 3
    /\ pptx_deck # <<>> => Len(steps_done) >= 4
    /\ pdf_deck # <<>> => Len(steps_done) >= 5
    /\ vid_runs <= 1
    /\ vid_runs = 1 => Len(steps_done) >= 5
    /\ video_file # NoFile => vid_runs = 1 /\ step_raised \in {0, 6}

\* The PowerPoint step raised after the first three steps completed: no PDF
\* deck was rendered and the video stage was never entered.
C18_Witness ==
    /\ step_raised = 4
    /\ steps_done = <<1, 2, 3>>
    /\ icons_dir # {}
    /\ pdf_deck = <<>>
    /\ vid_runs = 0
    /\ exit_code = 1


\* C16: for every text and every positive width limit, no line the word-wrap
\* returns is measured wider than the limit, a single word wider than the limit
\* included.
C16_LinesFit ==
    wrap_pc = "returned" =>
        \A i \in 1..Len(wrap_lines) : StringWidth(wrap_lines[i]) <= wrap_limit

\* What a renderer that only skips the draw of an absent or undecodable icon
\* leaves for n content slides: a saved deck of n + 1 slides in order.
SkipsOnlyIcon(out, n) ==
    /\ out.state = "saved"
    /\ Len(out.pages) = n + 1
    /\ \A j \in 1..(n + 1) : out.pages[j].slide = j - 1

\* C17: in both renderers an icon file that is absent, or present and unreadable,
\* only has its draw skipped: every slide is rendered and the deck is produced.
C17_IconSkipOnly ==
    /\ pptx_out # NoDeckFile => SkipsOnlyIcon(pptx_out, deck_slides)
    /\ pdf_out # NoDeckFile => SkipsOnlyIcon(pdf_out, deck_slides)

\* C21: OCR is run on a page only when the stripped digital text has fewer than
\* 100 characters; a page with 100 characters or more is returned as digital
\* text without OCR.
C21_OcrOnlyBelowThreshold ==
    \A pr \in ReturnedPages :
        LET d == Strip(pr[1].digital) IN
        /\ pr[2].ocr_run <=> TextLen(d) < 100
        /\ TextLen(d) >= 100 => pr[2].text = d

StatsTotal(stats) == stats.digital_pages + stats.ocr_pages + stats.hybrid_pages

\* C27: every extract_text_from_page call adds one to exactly one of the three
\* counters, and the statistics extract_structured_content returns sum to
\* num_pages whatever calls were made on the parser before.
C27_CountersSumToPages ==
    /\ last_call.op = "extract_text_from_page" =>
          \E c \in DOMAIN ZeroStats :
              extraction_stats = [last_call.before EXCEPT ![c] = @ + 1]
    /\ last_call.op = "extract_structured_content" =>
          /\ StatsTotal(last_call.extraction_stats) = last_call.num_pages
          /\ last_call.num_pages = Len(doc)
          /\ extraction_stats = last_call.extraction_stats

\* extract_structured_content returned on a parser whose counters were already
\* non-zero from an earlier call.
C27_Witness ==
    /\ last_call.op = "extract_structured_content"
    /\ StatsTotal(last_call.before) > 0
    /\ StatsTotal(last_call.extraction_stats) = Len(doc)

\* The case of the attempt, read off the two answers: the failures the attempt
\* can meet, in the order it can meet them, or "ok".
AttemptCase(search, download) ==
    IF search.kind = "error" THEN "search_error"
    ELSE IF search.status # 200 THEN "search_not_200"
    ELSE IF ~search.body.json THEN "search_error"
    ELSE IF "icons" \notin DOMAIN search.body.value THEN "no_icons"
    ELSE IF search.body.value.icons = <<>> THEN "no_icons"
    ELSE IF \A f \in UrlFields : Get(search.body.value.icons[1], f) = "" THEN "no_url"
    ELSE IF download.kind = "error" THEN "download_error"
    ELSE IF download.status # 200 THEN "download_not_200"
    ELSE "ok"

\* C22: one _try_search_download makes one search request for at most one icon
\* and then at most one download request; when the search errors or is not 200,
\* finds no icon or no URL, or the download errors or is not 200, it returns
\* False without raising and leaves the file at save_path as it was; the file is
\* written only by an attempt that returns True.
C22_AttemptFrame ==
    [][(try_pc = "called" /\ try_pc' = "returned") =>
        LET case == AttemptCase(try_search, try_download)
            sent == try_result'.requests
        IN
        /\ case \in TryOutcomes
        /\ ~try_result'.raised
        /\ try_result'.ret = TrySucceeds(case)
        /\ Len(sent) \in 1..2
        /\ sent[1].to = "search" /\ sent[1].limit <= 1
        /\ Len(sent) = 2 => sent[2].to = "download"
        /\ Len(sent) = 2 <=> case \in {"ok", "download_error", "download_not_200"}
        /\ ~try_result'.ret => try_file' = try_file
        /\ try_file' # try_file => try_result'.ret
        /\ try_result'.ret => try_file'.exists]_vars

\* An attempt whose download was answered with a status other than 200 returned
\* False and left the icon an earlier attempt had saved.
C22_Witness ==
    /\ try_pc = "returned"
    /\ AttemptCase(try_search, try_download) = "download_not_200"
    /\ ~try_result.ret
    /\ Len(try_result.requests) = 2
    /\ try_file = [exists |-> TRUE, content |-> "earlier"]

\* The colour a PDF page paints, as the 0..255 triple a PPTX slide stores:
\* the triple whose components equal the fractions.
SameColour(pptx_colour, pdf_colour) ==
    /\ Len(pptx_colour) = Len(pdf_colour)
    /\ \A i \in 1..Len(pptx_colour) :
          pptx_colour[i] * pdf_colour[i][2] = pdf_colour[i][1] * 255

\* (primary, secondary, purple, pink) as 0..255 triples.
DocumentedPalette ==
    <<<<41, 98, 255>>, <<16, 185, 129>>, <<139, 92, 246>>, <<236, 72, 153>>>>

\* C23: for every content slide k (counted from 1) both renderers take the accent
\* colour palette[k mod 4] of the palette (primary, secondary, purple, pink), so
\* slide k has the same accent colour in the PPTX and in the PDF deck.
C23_SameAccent ==
    /\ \A j \in 2..Len(pptx_out.pages) :
          pptx_out.pages[j].accent = DocumentedPalette[((j - 1) % 4) + 1]
    /\ \A j \in 2..Len(pdf_out.pages) :
          SameColour(DocumentedPalette[((j - 1) % 4) + 1], pdf_out.pages[j].accent)
    /\ \A j \in 2..Min(Len(pptx_out.pages), Len(pdf_out.pages)) :
          SameColour(pptx_out.pages[j].accent, pdf_out.pages[j].accent)

\* Both decks were saved with five content slides, so that slides 1 and 5 share
\* a colour and slide 4 has the first colour of the palette.
C23_Witness ==
    /\ pptx_out.state = "saved" /\ pdf_out.state = "saved"
    /\ Len(pptx_out.pages) = 6 /\ Len(pdf_out.pages) = 6
    /\ pptx_out.pages[5].accent = <<41, 98, 255>>
    /\ pptx_out.pages[2].accent = pptx_out.pages[6].accent

\* C24: each create_presentation that returns has emitted 1 + len(content_slides)
\* pages, the title slide first and then the content slides in the order of
\* slides.json, so the two decks agree in page count and order and have
\* total_slides pages.
C24_PagesInOrder ==
    /\ pptx_out.state = "saved" =>
          /\ Len(pptx_out.pages) = 1 + deck_slides
          /\ \A j \in 1..Len(pptx_out.pages) : pptx_out.pages[j].slide = j - 1
    /\ pdf_out.state = "saved" =>
          /\ Len(pdf_out.pages) = 1 + deck_slides
          /\ \A j \in 1..Len(pdf_out.pages) : pdf_out.pages[j].slide = j - 1
    /\ (pptx_out.state = "saved" /\ pdf_out.state = "saved") =>
          [j \in 1..Len(pptx_out.pages) |-> pptx_out.pages[j].slide]
              = [j \in 1..Len(pdf_out.pages) |-> pdf_out.pages[j].slide]

\* Both renderers returned for a deck of three content slides.
C24_Witness ==
    /\ deck_slides = 3
    /\ pptx_out.state = "saved" /\ pdf_out.state = "saved"
    /\ Len(pptx_out.pages) = 4 /\ Len(pdf_out.pages) = 4

\* C25: create_video builds one clip per slide image, in slide order: clip i shows
\* slide image i for the duration of audio entry i and carries that entry's file
\* when it has one; no slide image is left without a clip and no clip carries the
\* narration of another slide.
C25_OneClipPerSlide ==
    (vid_pc = "done" /\ vid_built /\ pdf_pages = json_slides + 1) =>
        LET clips == video_file.clips IN
        /\ Len(clips) = Len(slide_images)
        /\ \A j \in 1..Len(clips) :
              /\ clips[j].image = slide_images[j]
              /\ clips[j].duration = audio_clips[j].duration
              /\ clips[j].audio = audio_clips[j].path
              /\ clips[j].audio # NoPath =>
                    DigitsValue(clips[j].audio.digits) = DigitsValue(clips[j].image.digits)

\* C26: the phrase generate_icon_query returns has one to three words, for every
\* response text of the AI service and on the stop-word fallback.
C26_OneToThreeWords ==
    giq_pc = "returned" => Len(giq_query) \in 1..3

\* C28: over the _call_gemini calls of one instance current_key_index never
\* decreases, and a credential abandoned after a rate-limit error is not used
\* for any later request of the instance, also after the pool is exhausted.
C28_NoAbandonedKeyReuse ==
    [][/\ current_key_index' >= current_key_index
       /\ Len(gem_tried') = Len(gem_tried) + 1 =>
             gem_tried'[Len(gem_tried')].key \notin gem_limited]_vars

\* C29: every _call_gemini call ends, by returning or by raising, after at most
\* len(api_keys) requests, whatever the service answers and whatever
\* current_key_index was when the call began.
C29_CallTerminates ==
    /\ [](Len(gem_tried) <= NumKeys)
    /\ [](gem_pc = "request" => Len(gem_tried) < NumKeys)
    /\ [](gem_pc = "idle" /\ gem_calls > 0 =>
             gem_result.kind \in {"ok", "other_error", "all_keys_failed"})
    /\ (gem_pc = "request") ~> (gem_pc = "idle")

\* A call that began with current_key_index beyond the pool has ended, and a call
\* has ended only after a request to every credential.
C29_Witness ==
    /\ gem_pc = "idle"
    /\ gem_calls = MaxGeminiCalls
    /\ current_key_index > NumKeys
    /\ gem_result.kind = "all_keys_failed"
    /\ Len(gem_result.requests) = 1

\* " ".join(lines).split(): the words of the lines, in order.
RECURSIVE JoinedWords(_)
JoinedWords(lines) ==
    IF lines = <<>> THEN <<>> ELSE Head(lines) \o JoinedWords(Tail(lines))

\* C30: the word-wrap loses and reorders nothing: the emitted lines joined by
\* single blanks are the words of the input text in their order, and no emitted
\* line is empty.
C30_WrapKeepsWords ==
    wrap_pc = "returned" =>
        /\ JoinedWords(wrap_lines) =
              (IF wrap_site = "bullet" THEN <<DashWidth>> ELSE <<>>) \o wrap_words
        /\ \A i \in 1..Len(wrap_lines) : wrap_lines[i] # <<>>

\* Three words of different widths were wrapped into more than one line.
C30_Witness ==
    /\ wrap_pc = "returned"
    /\ Len(wrap_words) = 3
    /\ wrap_words[1] > wrap_words[2] /\ wrap_words[2] > wrap_words[3]
    /\ Len(wrap_lines) >= 2

====
